---- MODULE Spec2Model ----
(***************************************************************************)
(* Analysis & scoring engine of code-quality-mcp: the issue-to-score       *)
(* reduction (QualityAnalyzer.calculateScore), the snapshot store and the  *)
(* trend / quick-win derivations (AnalysisStorage).                        *)
(*                                                                         *)
(* Numbers.  JavaScript numbers that can be fractional are kept exact:     *)
(*   - a score is counted in half points (200 = 100 points, 1 = 0.5);      *)
(*   - a quick win's scoreGain is counted in sixths of a point, because    *)
(*     the code divides occurrence counts by 2 and by 3.                   *)
(* An optional property (file?, line?) is <<>> when undefined and <<v>>    *)
(* when it holds v.                                                        *)
(***************************************************************************)
EXTENDS Integers, Sequences, FiniteSets, TLC

VARIABLES
  store,   \* .code-quality-cache: file name (hash) -> file content or NoFile
  saved,   \* history: projectPath -> report of the latest saveAnalysis for it
  call,    \* the operation invoked last, with its arguments
  result   \* what that operation returned

vars == <<store, saved, call, result>>

----------------------------------------------------------------------------
(* Bounds of the model                                                     *)

MaxErrors == 21
MaxWarnings == 3
MaxInfos == 5
MaxIssues == 2
MaxGroup == 16
MaxGroups == 3
MaxSignals == 3
MaxEdits == 2
MaxLines == 2
MaxFindings == 3
MaxRuns == 2

----------------------------------------------------------------------------
(* JavaScript helpers                                                      *)

\* absent values; each compares unequal to every record and non-empty tuple
NoFile == <<>>

Null == <<>>

Undefined == <<>>

MathMax(a, b) == IF a >= b THEN a ELSE b

MathMin(a, b) == IF a <= b THEN a ELSE b

\* Math.round on a value in half points: nearest integer, a tie going up
MathRoundTieDown(h) == 2 * (h \div 2)

MathRound(h) == 2 * ((h + 1) \div 2)

\* A Map in insertion order: a sequence of <<key, value>> entries
MapHas(m, k) == \E n \in 1..Len(m) : m[n][1] = k

MapGet(m, k) == m[CHOOSE n \in 1..Len(m) : m[n][1] = k][2]

MapSet(m, k, v) ==
  IF MapHas(m, k)
  THEN [n \in 1..Len(m) |-> IF m[n][1] = k THEN <<k, v>> ELSE m[n]]
  ELSE Append(m, <<k, v>>)

----------------------------------------------------------------------------
(* Issues the checkers emit                                                *)

ConsoleIssue ==
  [severity |-> "error", category |-> "code-quality", file |-> <<"src/App.tsx">>,
   line |-> <<1>>, message |-> "Console.log found - use logger instead",
   rule |-> "no-console"]

ImportIssue ==
  [severity |-> "warning", category |-> "imports", file |-> <<"src/App.tsx">>,
   line |-> <<2>>, message |-> "Deep relative import found - use path aliases",
   rule |-> "no-deep-imports"]

TodoIssue ==
  [severity |-> "info", category |-> "maintenance", file |-> <<"src/util.ts">>,
   line |-> <<3>>, message |-> "TODO/FIXME comment found", rule |-> "no-todo"]

DuplicateDependencyIssue ==
  [severity |-> "info", category |-> "multi-project", file |-> Undefined,
   line |-> Undefined, message |-> "Dependency is duplicated",
   rule |-> "duplicate-dependency"]

\* issues under the other rule ids generateQuickWins knows
UnusedVarIssue ==
  [severity |-> "warning", category |-> "unused-code", file |-> Undefined,
   line |-> <<10>>, message |-> "Variable 'foo' is declared but never used",
   rule |-> "no-unused-vars"]

HebrewCommentIssue ==
  [severity |-> "info", category |-> "code-style", file |-> <<"src/util.ts">>,
   line |-> <<4>>, message |-> "Hebrew comment found", rule |-> "no-hebrew-comments"]

TodoCommentIssue ==
  [severity |-> "info", category |-> "maintenance", file |-> <<"src/App.tsx">>,
   line |-> <<5>>, message |-> "TODO comment found", rule |-> "no-todo-comments"]

\* n copies of one issue, as a checker pushes them for n matching lines
RECURSIVE Repeat(_, _)
Repeat(issue, n) == IF n = 0 THEN <<>> ELSE <<issue>> \o Repeat(issue, n - 1)

----------------------------------------------------------------------------
(* QualityAnalyzer                                                         *)

calculateStats(projectPath) ==
  [totalFiles |-> 2, totalLines |-> 40, averageFileSize |-> 20,
   duplicateCode |-> 0, unusedCode |-> 0, complexity |-> 0]

\* the forEach of calculateScore: from 100, deduct per severity; half points
RECURSIVE deductAll(_)
deductAll(issues) ==
  IF issues = <<>> THEN 200
  ELSE LET score == deductAll(SubSeq(issues, 1, Len(issues) - 1))
           severity == issues[Len(issues)].severity
       IN CASE severity = "error" -> score - 10
            [] severity = "warning" -> score - 4
            [] severity = "info" -> score - 1
            [] OTHER -> score

calculateScoreNoRound(issues, stats) == MathMax(0, deductAll(issues))

calculateScore(issues, stats) == MathMax(0, MathRound(deductAll(issues)))

\* the recommendations come in the order the categories first occur
generateRecommendationsInIssueOrder(issues, projectInfo) ==
  LET text(category) ==
        CASE category = "file-size" ->
               "Consider breaking down large files into smaller, more focused modules"
          [] category = "imports" ->
               "Set up path aliases in tsconfig.json to avoid deep relative imports"
          [] category = "firebase-structure" ->
               "Split Firebase functions into separate files (max 5 functions per file)"
          [] category = "code-quality" ->
               "Replace console.log with proper logging framework"
      firsts == {n \in 1..Len(issues) :
                   /\ issues[n].category \in {"file-size", "imports",
                                               "firebase-structure", "code-quality"}
                   /\ \A k \in 1..(n - 1) : issues[k].category # issues[n].category}
  IN [k \in 1..Cardinality(firsts) |->
        text(issues[CHOOSE n \in firsts :
                      Cardinality({m \in firsts : m < n}) = k - 1].category)]
     \o (IF projectInfo.isMultiProject
         THEN <<"Consider using a monorepo tool like Lerna or Nx for better dependency management">>
         ELSE <<>>)

generateRecommendations(issues, projectInfo) ==
  LET issueCategories == {issues[n].category : n \in 1..Len(issues)}
      when(cond, text) == IF cond THEN <<text>> ELSE <<>>
  IN    when("file-size" \in issueCategories,
             "Consider breaking down large files into smaller, more focused modules")
     \o when("imports" \in issueCategories,
             "Set up path aliases in tsconfig.json to avoid deep relative imports")
     \o when("firebase-structure" \in issueCategories,
             "Split Firebase functions into separate files (max 5 functions per file)")
     \o when("code-quality" \in issueCategories,
             "Replace console.log with proper logging framework")
     \o when(projectInfo.isMultiProject,
             "Consider using a monorepo tool like Lerna or Nx for better dependency management")

\* analyzeQuality, given the issues its checkers collected from the tree
analyzeQuality(projectPath, projectInfo, issues) ==
  LET stats == calculateStats(projectPath)
  IN [projectPath |-> projectPath,
      projectTypes |-> projectInfo.types,
      score |-> calculateScore(issues, stats),
      issues |-> issues,
      recommendations |-> generateRecommendations(issues, projectInfo),
      stats |-> stats]

----------------------------------------------------------------------------
(* Project paths and what the detector reports for them                    *)

PathA == "/home/dev/projects/app66634"
PathB == "/home/dev/projects/app79492"
PathC == "/home/dev/projects/app1"

Paths == {PathA, PathB, PathC}

ProjectInfoOf(projectPath) ==
  IF projectPath = PathC
  THEN [types |-> <<"react", "nodejs">>, isMultiProject |-> TRUE]
  ELSE [types |-> <<"react">>, isMultiProject |-> FALSE]

\* The issues a run collects: analyzeQuality appends the per-type issues,
\* then the common issues, then the multi-project issues. The tree at PathC
\* holds no marker comments; only a multi-project has duplicate dependencies.
Findings(projectPath) ==
  LET multi == ProjectInfoOf(projectPath).isMultiProject
  IN {Repeat(ConsoleIssue, e) \o Repeat(TodoIssue, t)
        \o Repeat(DuplicateDependencyIssue, d) :
      <<e, t, d>> \in {c \in (0..MaxIssues) \X (0..MaxIssues) \X (0..MaxIssues) :
                         /\ c[1] + c[2] + c[3] <= MaxIssues
                         /\ IF multi THEN c[2] = 0 ELSE c[3] = 0}}

\* the reports analyzeQuality can produce for each path
Reports ==
  [p \in Paths |->
     {analyzeQuality(p, ProjectInfoOf(p), issues) : issues \in Findings(p)}]

----------------------------------------------------------------------------
(* JSON.stringify / JSON.parse on the stored data: a text is the set of    *)
(* members actually written, a property whose value is undefined is not   *)
(* written, and reading a property that was not written gives undefined.   *)
(* A finite number is written as the decimal that reads back as itself.    *)

OptionalIssueKeys == {"file", "line"}

stringifyIssue(issue) ==
  [k \in {key \in DOMAIN issue :
            key \in OptionalIssueKeys => issue[key] # Undefined} |->
     IF k \in OptionalIssueKeys THEN issue[k][1] ELSE issue[k]]

parseIssue(text) ==
  [severity |-> text.severity, category |-> text.category,
   file |-> IF "file" \in DOMAIN text THEN <<text.file>> ELSE Undefined,
   line |-> IF "line" \in DOMAIN text THEN <<text.line>> ELSE Undefined,
   message |-> text.message, rule |-> text.rule]

stringifyReport(report) ==
  [report EXCEPT !.issues = [n \in 1..Len(report.issues) |->
                               stringifyIssue(report.issues[n])]]

parseReport(text) ==
  [text EXCEPT !.issues = [n \in 1..Len(text.issues) |-> parseIssue(text.issues[n])]]

JSONstringify(data) == [data EXCEPT !.report = stringifyReport(data.report)]

JSONparse(content) == [content EXCEPT !.report = parseReport(content.report)]

----------------------------------------------------------------------------
(* AnalysisStorage                                                         *)

\* md5(projectPath), hex, first 8 characters
getProjectHash(projectPath) ==
  CASE projectPath = PathA -> "8e37477a"
    [] projectPath = PathB -> "8e37477a"
    [] projectPath = PathC -> "3927bfde"

Hashes == {getProjectHash(p) : p \in Paths}

\* the cache directory after saveAnalysis wrote analysis_<hash>.json;
\* the timestamp member of the data is written and read by no code: left out
saveAnalysisKeepFirst(files, projectPath, report) ==
  LET hash == getProjectHash(projectPath)
      data == [projectPath |-> projectPath, report |-> report]
  IN IF files[hash] = NoFile
     THEN [files EXCEPT ![hash] = JSONstringify(data)] ELSE files

saveAnalysisPartial(files, projectPath, report) ==
  LET hash == getProjectHash(projectPath)
      data == [projectPath |-> projectPath,
               report |-> [report EXCEPT !.issues = <<>>]]
  IN [files EXCEPT ![hash] = JSONstringify(data)]

saveAnalysisMerge(files, projectPath, report) ==
  LET hash == getProjectHash(projectPath)
      old == IF files[hash] = NoFile THEN <<>>
             ELSE JSONparse(files[hash]).report.issues
      data == [projectPath |-> projectPath,
               report |-> [report EXCEPT !.issues = old \o report.issues]]
  IN [files EXCEPT ![hash] = JSONstringify(data)]

saveAnalysis(files, projectPath, report) ==
  LET hash == getProjectHash(projectPath)
      data == [projectPath |-> projectPath, report |-> report]
  IN [files EXCEPT ![hash] = JSONstringify(data)]

getLatestAnalysis(files, projectPath) ==
  LET hash == getProjectHash(projectPath)
  IN IF files[hash] = NoFile THEN Null
     ELSE JSONparse(files[hash]).report

RECURSIVE countByCategory(_)
countByCategory(issues) ==
  IF issues = <<>> THEN <<>>
  ELSE LET map == countByCategory(SubSeq(issues, 1, Len(issues) - 1))
           category == issues[Len(issues)].category
           count == IF MapHas(map, category) THEN MapGet(map, category) ELSE 0
       IN MapSet(map, category, count + 1)

RECURSIVE areasNotStrict(_, _, _)
areasNotStrict(from, other, improving) ==
  IF from = <<>> THEN <<>>
  ELSE LET category == Head(from)[1]
           here == Head(from)[2]
           there == IF MapHas(other, category) THEN MapGet(other, category) ELSE 0
           prevCount == IF improving THEN here ELSE there
           currCount == IF improving THEN there ELSE here
           hit == IF improving THEN currCount <= prevCount ELSE currCount >= prevCount
       IN (IF hit THEN <<[category |-> category, before |-> prevCount,
                          after |-> currCount, change |-> currCount - prevCount]>>
           ELSE <<>>)
          \o areasNotStrict(Tail(from), other, improving)

\* one forEach of generateTrends over `from`, looking counts up in `other`
RECURSIVE areas(_, _, _)
areas(from, other, improving) ==
  IF from = <<>> THEN <<>>
  ELSE LET category == Head(from)[1]
           here == Head(from)[2]
           there == IF MapHas(other, category) THEN MapGet(other, category) ELSE 0
           prevCount == IF improving THEN here ELSE there
           currCount == IF improving THEN there ELSE here
           hit == IF improving THEN currCount < prevCount ELSE currCount > prevCount
       IN (IF hit THEN <<[category |-> category, before |-> prevCount,
                          after |-> currCount, change |-> currCount - prevCount]>>
           ELSE <<>>)
          \o areas(Tail(from), other, improving)

generateTrendsNoEarlyReturn(files, projectPath, currentReport) ==
  LET latest == getLatestAnalysis(files, projectPath)
      previousReport == IF latest = Null THEN [score |-> 0, issues |-> <<>>] ELSE latest
      prevCategories == countByCategory(previousReport.issues)
      currCategories == countByCategory(currentReport.issues)
  IN [previousScore |-> <<previousReport.score>>,
      currentScore |-> currentReport.score,
      scoreChange |-> <<currentReport.score - previousReport.score>>,
      previousIssueCount |-> <<Len(previousReport.issues)>>,
      currentIssueCount |-> Len(currentReport.issues),
      issueChange |-> <<Len(currentReport.issues) - Len(previousReport.issues)>>,
      improvingAreas |-> areas(prevCategories, currCategories, TRUE),
      degradingAreas |-> areas(currCategories, prevCategories, FALSE)]

\* the timestamp member of the trend (new Date()) is left out
generateTrends(files, projectPath, currentReport) ==
  LET previousReport == getLatestAnalysis(files, projectPath)
      prevCategories == IF previousReport = Null THEN <<>>
                        ELSE countByCategory(previousReport.issues)
      currCategories == countByCategory(currentReport.issues)
  IN IF previousReport = Null
     THEN [previousScore |-> Undefined, currentScore |-> currentReport.score,
           scoreChange |-> Undefined, previousIssueCount |-> Undefined,
           currentIssueCount |-> Len(currentReport.issues),
           issueChange |-> Undefined,
           improvingAreas |-> <<>>, degradingAreas |-> <<>>]
     ELSE [previousScore |-> <<previousReport.score>>,
           currentScore |-> currentReport.score,
           scoreChange |-> <<currentReport.score - previousReport.score>>,
           previousIssueCount |-> <<Len(previousReport.issues)>>,
           currentIssueCount |-> Len(currentReport.issues),
           issueChange |-> <<Len(currentReport.issues) - Len(previousReport.issues)>>,
           improvingAreas |-> areas(prevCategories, currCategories, TRUE),
           degradingAreas |-> areas(currCategories, prevCategories, FALSE)]

----------------------------------------------------------------------------
(* AnalysisStorage.generateQuickWins                                       *)

\* ruleMap after the forEach: an entry per rule id, in the order in which the
\* rule ids first occur, holding the issues that carry it in their order
groupByRule(issues) ==
  LET firsts == {n \in 1..Len(issues) :
                   \A m \in 1..(n - 1) : issues[m].rule # issues[n].rule}
      nth(k) == CHOOSE n \in firsts : Cardinality({m \in firsts : m < n}) = k - 1
  IN [k \in 1..Cardinality(firsts) |->
        <<issues[nth(k)].rule,
          SelectSeq(issues, LAMBDA i : i.rule = issues[nth(k)].rule)>>]

\* new Set(issues.map(i => i.file).filter(Boolean)).size
filesSize(issues) ==
  Cardinality({issues[n].file[1] :
                 n \in {m \in 1..Len(issues) : issues[m].file # Undefined}})

\* the body of ruleMap.forEach for one entry: the wins it pushes.
\* A title, description or effort is the tuple of the parts of its template
\* string; scoreGain is in sixths of a point.
winsOf(rule, issues) ==
  LET n == Len(issues)
      files == filesSize(issues)
  IN IF n >= 5
     THEN CASE rule = "no-unused-vars" ->
                 <<[title |-> <<"Remove", n, "unused variables">>,
                    description |-> <<"Clean up unused code across", files, "files">>,
                    effort |-> <<n * 2, "minutes">>,
                    impact |-> "Medium",
                    scoreGain |-> MathMin(6 * 15, 6 * n),
                    filesAffected |-> files]>>
            [] rule = "no-console" ->
                 <<[title |-> <<"Remove", n, "console statements">>,
                    description |-> <<"Replace with proper logging">>,
                    effort |-> <<n, "minutes">>,
                    impact |-> "Low",
                    scoreGain |-> MathMin(6 * 8, 3 * n),
                    filesAffected |-> files]>>
            [] rule = "no-hebrew-comments" ->
                 <<[title |-> <<"Translate", n, "Hebrew comments">>,
                    description |-> <<"Improve code maintainability">>,
                    effort |-> <<n * 3, "minutes">>,
                    impact |-> "Low",
                    scoreGain |-> MathMin(6 * 5, 2 * n),
                    filesAffected |-> files]>>
            [] rule = "no-todo-comments" ->
                 <<[title |-> <<"Address", n, "TODO comments">>,
                    description |-> <<"Complete pending tasks or create tickets">>,
                    effort |-> <<n * 5, "minutes">>,
                    impact |-> "Medium",
                    scoreGain |-> MathMin(6 * 10, 3 * n),
                    filesAffected |-> files]>>
            [] OTHER -> <<>>
     ELSE <<>>

RECURSIVE collectWins(_)
collectWins(ruleMap) ==
  IF ruleMap = <<>> THEN <<>>
  ELSE winsOf(Head(ruleMap)[1], Head(ruleMap)[2]) \o collectWins(Tail(ruleMap))

\* parseInt of an effort string: the number its text starts with
parseInt(effort) == effort[1]

\* the sort callback, (b.scoreGain / effortB) - (a.scoreGain / effortA), scaled
\* by effortA * effortB > 0, which keeps its sign; the quotients of the values
\* in reach are exact or far apart, so the floating-point sign is this sign
compareROIAscending(a, b) ==
  a.scoreGain * parseInt(b.effort) - b.scoreGain * parseInt(a.effort)

compareROI(a, b) ==
  b.scoreGain * parseInt(a.effort) - a.scoreGain * parseInt(b.effort)

\* Array.prototype.sort: stable, each element placed before the first one
\* that the callback orders after it
insertWin(sorted, win) ==
  LET later == {k \in 1..Len(sorted) : compareROI(win, sorted[k]) < 0}
  IN IF later = {} THEN Append(sorted, win)
     ELSE LET at == CHOOSE k \in later : \A j \in later : k <= j
          IN SubSeq(sorted, 1, at - 1) \o <<win>> \o SubSeq(sorted, at, Len(sorted))

RECURSIVE sortInto(_, _)
sortInto(sorted, wins) ==
  IF wins = <<>> THEN sorted ELSE sortInto(insertWin(sorted, Head(wins)), Tail(wins))

sort(wins) == sortInto(<<>>, wins)

slice(list, from, to) == SubSeq(list, from + 1, MathMin(to, Len(list)))

generateQuickWins(report) ==
  LET ruleMap == groupByRule(report.issues)
      wins == collectWins(ruleMap)
  IN slice(sort(wins), 0, 5)

----------------------------------------------------------------------------
(* Specification of the scorer: the issues the checkers found are drawn,   *)
(* analyzeQuality reduces them to a report.                                *)

\* the two orders in which the checkers' issues are laid out
ScoreInput(e, w, i, errorsFirst) ==
  IF errorsFirst
  THEN Repeat(ConsoleIssue, e) \o Repeat(ImportIssue, w) \o Repeat(TodoIssue, i)
  ELSE Repeat(TodoIssue, i) \o Repeat(ImportIssue, w) \o Repeat(ConsoleIssue, e)

InitScore ==
  /\ store = <<>>
  /\ saved = <<>>
  /\ result = Null
  /\ \E e \in 0..MaxErrors, w \in 0..MaxWarnings, i \in 0..MaxInfos, f \in BOOLEAN :
       call = [op |-> "input", path |-> PathA, issues |-> ScoreInput(e, w, i, f)]

AnalyzeQuality ==
  /\ call.op = "input"
  /\ call' = [call EXCEPT !.op = "analyzeQuality"]
  /\ result' = analyzeQuality(call.path, ProjectInfoOf(call.path), call.issues)
  /\ UNCHANGED <<store, saved>>

NextScore == AnalyzeQuality

SpecScore == InitScore /\ [][NextScore]_vars

----------------------------------------------------------------------------
(* Specification of the snapshot store: saveAnalysis and getLatestAnalysis *)
(* called in any order on an initially empty cache directory.              *)

InitStore ==
  /\ store = [h \in Hashes |-> NoFile]
  /\ saved = [p \in Paths |-> Null]
  /\ call = [op |-> "new"]
  /\ result = Null

SaveAnalysis(p, r) ==
  /\ store' = saveAnalysis(store, p, r)
  /\ saved' = [saved EXCEPT ![p] = r]
  /\ call' = [op |-> "saveAnalysis", path |-> p, report |-> r]
  /\ result' = Null

GetLatestAnalysis(p) ==
  /\ call' = [op |-> "getLatestAnalysis", path |-> p]
  /\ result' = getLatestAnalysis(store, p)
  /\ UNCHANGED <<store, saved>>

NextStore ==
  \/ \E p \in Paths : \E r \in Reports[p] : SaveAnalysis(p, r)
  \/ \E p \in Paths : GetLatestAnalysis(p)

SpecStore == InitStore /\ [][NextStore]_vars

----------------------------------------------------------------------------
(* Specification of the trend tools working on the store                   *)

Init ==
  /\ store = [h \in Hashes |-> NoFile]
  /\ saved = <<>>
  /\ call = [op |-> "new"]
  /\ result = Null

GenerateTrends(p, r) ==
  /\ call' = [op |-> "generateTrends", path |-> p, report |-> r]
  /\ result' = generateTrends(store, p, r)
  /\ UNCHANGED <<store, saved>>

\* the get_trends tool: analyse, compare with the snapshot, then overwrite it
GetTrends(p, issues) ==
  LET report == analyzeQuality(p, ProjectInfoOf(p), issues)
  IN /\ call' = [op |-> "get_trends", path |-> p, report |-> report, isError |-> FALSE]
     /\ result' = generateTrends(store, p, report)
     /\ store' = saveAnalysis(store, p, report)
     /\ UNCHANGED saved

\* the run throws before the save; the boundary turns it into an error payload
GetTrendsFails(p) ==
  /\ call' = [op |-> "get_trends", path |-> p, report |-> Null, isError |-> TRUE]
  /\ result' = [isError |-> TRUE]
  /\ UNCHANGED <<store, saved>>

Next ==
  \/ \E p \in Paths : \E r \in Reports[p] : GenerateTrends(p, r)
  \/ \E p \in Paths : \E issues \in Findings(p) : GetTrends(p, issues)
  \/ \E p \in Paths : GetTrendsFails(p)

Spec == Init /\ [][Next]_vars

----------------------------------------------------------------------------
(* Specification of the quick wins: a report is drawn, generateQuickWins   *)
(* is applied to it.                                                       *)

RuleKinds ==
  {UnusedVarIssue, ConsoleIssue, HebrewCommentIssue, TodoCommentIssue, TodoIssue}

\* group sizes around the threshold of 5
GroupSizes == {2, 4, 5, MaxGroup}

\* sequences of distinct issue kinds, each with the size of its group
GroupLists ==
  UNION {{g \in [1..n -> RuleKinds \X GroupSizes] :
            \A j, k \in 1..n : j # k => g[j][1] # g[k][1]} : n \in 0..MaxGroups}

RECURSIVE Blocks(_)
Blocks(groups) ==
  IF groups = <<>> THEN <<>>
  ELSE Repeat(Head(groups)[1], Head(groups)[2]) \o Blocks(Tail(groups))

\* the issue list of the groups, each group in one block, or with the first
\* issue found again at the end
QuickWinInput(groups, apart) ==
  LET list == Blocks(groups)
  IN IF apart /\ list # <<>> THEN Tail(list) \o <<Head(list)>> ELSE list

InitQuickWins ==
  /\ store = <<>>
  /\ saved = <<>>
  /\ result = Null
  /\ \E groups \in GroupLists, apart \in BOOLEAN :
       call = [op |-> "input",
               report |-> analyzeQuality(PathA, ProjectInfoOf(PathA),
                                         QuickWinInput(groups, apart))]

GenerateQuickWins ==
  /\ call.op = "input"
  /\ call' = [call EXCEPT !.op = "generateQuickWins"]
  /\ result' = generateQuickWins(call.report)
  /\ UNCHANGED <<store, saved>>

NextQuickWins == GenerateQuickWins

SpecQuickWins == InitQuickWins /\ [][NextQuickWins]_vars

----------------------------------------------------------------------------
(* Specification of two uncoordinated runs against one project path. A run *)
(* analyses, then awaits generateTrends (which reads the snapshot), then   *)
(* awaits saveAnalysis (one synchronous writeFileSync); the runs of one    *)
(* event loop interleave at these awaits. Here call and result hold one    *)
(* entry per run and saved lists the runs in the order of their saves.     *)

Runs == {1, 2}

InitConcurrent ==
  /\ \E p \in Paths :
       /\ \E r0 \in Reports[p] \cup {Null} :
            store = IF r0 = Null THEN [h \in Hashes |-> NoFile]
                    ELSE saveAnalysis([h \in Hashes |-> NoFile], p, r0)
       /\ call = [r \in Runs |-> [pc |-> "idle", path |-> p, report |-> Null]]
  /\ saved = <<>>
  /\ result = [r \in Runs |-> Null]

\* analyzeQuality of the run has returned its report
BeginRun(r, report) ==
  /\ call[r].pc = "idle"
  /\ call' = [call EXCEPT ![r] = [@ EXCEPT !.pc = "analysed", !.report = report]]
  /\ UNCHANGED <<store, saved, result>>

CompareRun(r) ==
  /\ call[r].pc = "analysed"
  /\ result' = [result EXCEPT ![r] = generateTrends(store, call[r].path, call[r].report)]
  /\ call' = [call EXCEPT ![r] = [@ EXCEPT !.pc = "compared"]]
  /\ UNCHANGED <<store, saved>>

SaveRun(r) ==
  /\ call[r].pc = "compared"
  /\ store' = saveAnalysis(store, call[r].path, call[r].report)
  /\ saved' = Append(saved, r)
  /\ call' = [call EXCEPT ![r] = [@ EXCEPT !.pc = "done"]]
  /\ UNCHANGED result

NextConcurrent ==
  \/ \E r \in Runs : \E report \in Reports[call[r].path] : BeginRun(r, report)
  \/ \E r \in Runs : CompareRun(r)
  \/ \E r \in Runs : SaveRun(r)

SpecConcurrent == InitConcurrent /\ [][NextConcurrent]_vars

----------------------------------------------------------------------------
(* The project tree the detector reads. A file's content is NoFile when    *)
(* the file is missing, [valid |-> FALSE] when it is no JSON, and          *)
(* [valid |-> TRUE, json |-> manifest] otherwise. A tree is put together   *)
(* from at most MaxSignals signals <<kind, name, detail>>.                 *)

InvalidJson == [valid |-> FALSE]

Manifest(dependencies, devDependencies, dev) ==
  [valid |-> TRUE,
   json |-> [dependencies |-> dependencies, devDependencies |-> devDependencies,
             scripts |-> [dev |-> dev, build |-> Undefined]]]

DepNames ==
  {"react", "react-native", "next", "@nestjs/core", "@nestjs/microservices",
   "express", "vue", "svelte", "@remix-run/react", "astro"}

DevDepNames == {"typescript"}

MarkerFiles ==
  {"app.json", "pom.xml", "build.gradle", "src/Api/Api.csproj", "angular.json",
   "amplify"}

NestedNames == {"client", "apps/web"}

Signals ==
       {<<"dep", d, "">> : d \in DepNames}
  \cup {<<"devDep", d, "">> : d \in DevDepNames}
  \cup {<<"script", "dev", "next dev">>}
  \cup {<<"manifest", "package.json", k>> : k \in {"invalid", "empty"}}
  \cup {<<"marker", f, "">> : f \in MarkerFiles}
  \cup {<<"functions", "functions", k>> : k \in {"firebase", "plain", "invalid"}}
  \cup {<<"nested", d, k>> : d \in NestedNames, k \in {"react", "express", "invalid"}}

RECURSIVE SubsetsUpTo(_, _)
SubsetsUpTo(S, k) ==
  IF k = 0 THEN {{}}
  ELSE LET smaller == SubsetsUpTo(S, k - 1)
       IN smaller \cup {x \cup {e} : x \in smaller, e \in S}

\* an unparseable root manifest declares nothing; a directory holds one manifest
Coherent(S) ==
  /\ <<"manifest", "package.json", "invalid">> \in S =>
       \A s \in S : s[1] \notin {"dep", "devDep", "script"}
                    /\ s # <<"manifest", "package.json", "empty">>
  /\ \A s, u \in S : (s[1] = u[1] /\ s[2] = u[2] /\ s[1] \in {"functions", "nested"})
                       => s = u

SubManifest(kind) ==
  CASE kind = "react" -> Manifest({"react", "lodash"}, {}, Undefined)
    [] kind = "express" -> Manifest({"express", "lodash"}, {"typescript"}, Undefined)
    [] kind = "firebase" -> Manifest({"firebase-functions", "express"}, {}, Undefined)
    [] kind = "plain" -> Manifest({"lodash"}, {}, Undefined)
    [] kind = "invalid" -> InvalidJson

TreeOf(S) ==
  LET of(kind) == {s \in S : s[1] = kind}
      declared == of("dep") \cup of("devDep") \cup of("script")
                    \cup {s \in S : s = <<"manifest", "package.json", "empty">>}
  IN [packageJson |->
        IF <<"manifest", "package.json", "invalid">> \in S THEN InvalidJson
        ELSE IF declared = {} THEN NoFile
        ELSE Manifest({s[2] : s \in of("dep")}, {s[2] : s \in of("devDep")},
                      IF of("script") = {} THEN Undefined ELSE <<"next dev">>),
      markers |-> {s[2] : s \in of("marker")},
      functions |->
        IF of("functions") = {} THEN NoFile
        ELSE SubManifest((CHOOSE s \in of("functions") : TRUE)[3]),
      nested |->
        [d \in NestedNames |->
           IF \E s \in of("nested") : s[2] = d
           THEN SubManifest((CHOOSE s \in of("nested") : s[2] = d)[3])
           ELSE NoFile]]

Trees == {TreeOf(S) : S \in {x \in SubsetsUpTo(Signals, MaxSignals) : Coherent(x)}}

----------------------------------------------------------------------------
(* FileUtils and ProjectDetector                                           *)

\* a Set in insertion order: a sequence without repetitions
SetHas(set, x) == \E n \in 1..Len(set) : set[n] = x

SetAdd(set, x) == IF SetHas(set, x) THEN set ELSE Append(set, x)

\* if (condition) detectedTypes.add(tag)
addIf(condition, detectedTypes, tag) ==
  IF condition THEN SetAdd(detectedTypes, tag) ELSE detectedTypes

\* if (detectedTypes.size === 0 && condition) detectedTypes.add(tag)
addIfNone(condition, detectedTypes, tag) ==
  IF Len(detectedTypes) = 0 /\ condition THEN SetAdd(detectedTypes, tag)
  ELSE detectedTypes

\* String.prototype.includes on an optional script command
includes(script, part) ==
  script # Undefined /\ script[1] \in {part, part \o " --turbo"}

readJsonFile(content) ==
  IF content = NoFile THEN Null
  ELSE IF content.valid THEN content.json ELSE Null

\* a detector that stops at the first framework it recognises
detectNodeProjectFirstMatch(packageJson, detectedTypes) ==
  LET deps == packageJson.dependencies \cup packageJson.devDependencies
  IN CASE "react" \in deps /\ "react-native" \notin deps -> SetAdd(detectedTypes, "react")
       [] "next" \in deps -> SetAdd(detectedTypes, "nextjs")
       [] "@nestjs/core" \in deps -> SetAdd(detectedTypes, "nestjs")
       [] "express" \in deps -> SetAdd(detectedTypes, "nodejs")
       [] "typescript" \in deps /\ Len(detectedTypes) = 0 -> SetAdd(detectedTypes, "nodejs")
       [] "vue" \in deps -> SetAdd(detectedTypes, "vue")
       [] "svelte" \in deps -> SetAdd(detectedTypes, "svelte")
       [] "@remix-run/react" \in deps -> SetAdd(detectedTypes, "remix")
       [] "astro" \in deps -> SetAdd(detectedTypes, "astro")
       [] OTHER -> detectedTypes

detectNodeProject(packageJson, detectedTypes) ==
  LET deps == packageJson.dependencies \cup packageJson.devDependencies
      has(d) == d \in deps
      appRouter == \/ includes(packageJson.scripts.dev, "next dev")
                   \/ includes(packageJson.scripts.build, "next build")
      t1 == addIf(has("react") /\ ~has("react-native"), detectedTypes, "react")
      t2 == addIf(has("next") /\ appRouter,
                  addIf(has("next"), t1, "nextjs"), "nextjs-app-router")
      nest == has("@nestjs/core") \/ has("@nestjs/common")
      t3 == addIf(nest /\ has("@nestjs/microservices"),
                  addIf(nest, t2, "nestjs"), "nestjs-microservices")
      t4 == addIf(has("express") \/ has("fastify") \/ has("koa") \/ has("hapi"),
                  t3, "nodejs")
      t5 == addIfNone(has("@types/node") \/ has("typescript") \/ has("tsx"),
                      t4, "nodejs")
      t6 == addIf(has("vue") \/ has("nuxt"), t5, "vue")
      t7 == addIf(has("svelte") \/ has("@sveltejs/kit"), t6, "svelte")
      t8 == addIf(has("@remix-run/react") \/ has("@remix-run/node"), t7, "remix")
  IN addIf(has("astro"), t8, "astro")

\* the directories the nested scan globs, with the matches of 'apps/*' and
\* 'packages/*' among the directories a tree can hold
directoriesWithFunctions ==
  <<"client", "server", "frontend", "backend", "api", "web", "mobile", "functions",
    "apps/web", "packages/ui">>

directories ==
  <<"client", "server", "frontend", "backend", "api", "web", "mobile",
    "apps/web", "packages/ui">>

\* the content of <match>/package.json
subPackageJsonOf(tree, match) ==
  IF match \in NestedNames THEN tree.nested[match]
  ELSE IF match = "functions" THEN tree.functions
  ELSE NoFile

RECURSIVE scanNested(_, _, _)
scanNested(tree, matches, subProjects) ==
  IF matches = <<>> THEN subProjects
  ELSE LET match == Head(matches)
           subPackageJson == readJsonFile(subPackageJsonOf(tree, match))
           subTypes == IF subPackageJson = Null THEN <<>>
                       ELSE detectNodeProject(subPackageJson, <<>>)
       IN scanNested(tree, Tail(matches),
            IF Len(subTypes) > 0
            THEN Append(subProjects,
                        [path |-> match, type |-> subTypes[1],
                         dependencies |-> subPackageJson.dependencies])
            ELSE subProjects)

detectNestedProjects(tree, subProjects) == scanNested(tree, directories, subProjects)

priority ==
  <<"nextjs-app-router", "nextjs", "nestjs-microservices", "nestjs", "remix",
    "react-native", "angular", "vue", "svelte", "astro", "react", "nodejs",
    "dotnet", "java", "firebase-functions", "aws-amplify">>

determineMainFrameworkFirstDetected(types) ==
  IF types = <<>> THEN Undefined ELSE <<types[1]>>

determineMainFramework(types) ==
  LET found == {k \in 1..Len(priority) : SetHas(types, priority[k])}
  IN IF found # {}
     THEN <<priority[CHOOSE k \in found : \A j \in found : k <= j]>>
     ELSE IF types = <<>> THEN Undefined ELSE <<types[1]>>

isMultiProjectTypesOnly(detectedTypes, subProjects) == Len(detectedTypes) > 1

isMultiProject(detectedTypes, subProjects) ==
  Len(detectedTypes) > 1 \/ Len(subProjects) > 0

\* the sub-project entry of the Firebase detection
functionsEntry(firebase, functionsPackageJson) ==
  IF firebase
  THEN <<[path |-> "functions", type |-> "firebase-functions",
          dependencies |-> functionsPackageJson.dependencies]>>
  ELSE <<>>

projectInfoOf(detectedTypes, subProjects) ==
  [types |-> detectedTypes,
   isMultiProject |-> isMultiProject(detectedTypes, subProjects),
   subProjects |-> IF Len(subProjects) > 0 THEN <<subProjects>> ELSE Undefined,
   mainFramework |-> determineMainFramework(detectedTypes)]

detectProject(tree, deep) ==
  LET packageJson == IF tree.packageJson # NoFile
                     THEN readJsonFile(tree.packageJson) ELSE Null
      t1 == IF packageJson # Null THEN detectNodeProject(packageJson, <<>>) ELSE <<>>
      t2 == addIf("app.json" \in tree.markers \/ "metro.config.js" \in tree.markers,
                  t1, "react-native")
      t3 == addIf("pom.xml" \in tree.markers \/ "build.gradle" \in tree.markers,
                  t2, "java")
      csprojFiles == {f \in tree.markers : f = "src/Api/Api.csproj"}
      t4 == addIf(Cardinality(csprojFiles) > 0, t3, "dotnet")
      t5 == addIf("angular.json" \in tree.markers, t4, "angular")
      functionsPackageJson == readJsonFile(tree.functions)
      firebase == /\ tree.functions # NoFile
                  /\ functionsPackageJson # Null
                  /\ "firebase-functions" \in functionsPackageJson.dependencies
      t6 == addIf(firebase, t5, "firebase-functions")
      s1 == functionsEntry(firebase, functionsPackageJson)
  IN projectInfoOf(addIf("amplify" \in tree.markers, t6, "aws-amplify"),
                   IF deep THEN detectNestedProjects(tree, s1) ELSE s1)

----------------------------------------------------------------------------
(* Specification of the detector: a tree is drawn, detectProject reads it. *)

InitDetect ==
  /\ \E tree \in Trees : store = tree
  /\ saved = <<>>
  /\ \E deep \in BOOLEAN : call = [op |-> "input", deep |-> deep]
  /\ result = Null

DetectProject ==
  /\ call.op = "input"
  /\ call' = [call EXCEPT !.op = "detectProject"]
  /\ result' = detectProject(store, call.deep)
  /\ UNCHANGED <<store, saved>>

NextDetect == DetectProject

SpecDetect == InitDetect /\ [][NextDetect]_vars

----------------------------------------------------------------------------
(* QualityRules (LimitsService holds the same tables and getters)          *)

QualityRules ==
  [clientLimits |->
     [maxLines |-> 300, maxComplexity |-> 10, maxParameters |-> 4,
      componentMaxLines |-> 200, maxFunctionLines |-> 30, maxLineLength |-> 120],
   firebaseLimits |->
     [maxFunctionsPerFile |-> 5, maxLinesPerFunction |-> 50, maxLinesPerFile |-> 300,
      maxComplexity |-> 10, maxParameters |-> 4],
   serverLimits |->
     [maxLines |-> 500, maxComplexity |-> 15, maxParameters |-> 5,
      maxLineLength |-> 120, maxMethodsPerClass |-> 30]]

\* a parameter with a default value: the default stands in for undefined
orDefault(argument, default) == IF argument = Undefined THEN default ELSE argument[1]

getReactLimits(rules, variant) ==
  IF orDefault(variant, "react") = "react-native"
  THEN [rules.clientLimits EXCEPT !.maxLines = 250]
  ELSE rules.clientLimits

getFirebaseLimits(rules) == rules.firebaseLimits

getServerLimitsKnownOnly(rules, framework) ==
  CASE orDefault(framework, "nodejs") = "nextjs" -> [maxLines |-> 250]
    [] orDefault(framework, "nodejs") = "nest" -> [maxLines |-> 350]
    [] orDefault(framework, "nodejs") = "nodejs" -> rules.serverLimits
    [] OTHER -> Undefined

getServerLimits(rules, framework) ==
  CASE orDefault(framework, "nodejs") = "nextjs" ->
         [rules.serverLimits EXCEPT !.maxLines = 250]
    [] orDefault(framework, "nodejs") = "nest" ->
         [rules.serverLimits EXCEPT !.maxLines = 350]
    [] OTHER -> rules.serverLimits

getJavaLimits(rules) ==
  [maxLines |-> 1000, maxComplexity |-> 15, maxParameters |-> 6,
   maxLineLength |-> 100, maxMethodsPerClass |-> 30]

getDotNetLimits(rules) ==
  [maxLines |-> 500, maxComplexity |-> 15, maxParameters |-> 5,
   maxLineLength |-> 120, maxMethodsPerClass |-> 30]

getAngularLimits(rules) ==
  [maxLines |-> 350, maxComplexity |-> 12, maxParameters |-> 4,
   maxLineLength |-> 120, maxMethodsPerClass |-> 20]

----------------------------------------------------------------------------
(* Specification of the rule catalog: one QualityRules object, its getters *)
(* called in any order; saved holds the lookup before the last one.        *)

Variants ==
  {Undefined} \cup
  {<<v>> : v \in {"react", "react-native", "nodejs", "nextjs", "nest", "nestjs",
                  "raect-native", "vue"}}

InitRules ==
  /\ store = QualityRules
  /\ saved = <<>>
  /\ call = [op |-> "new"]
  /\ result = Null

\* the lookup before this one
Previous == IF call.op = "new" THEN <<>> ELSE <<[call |-> call, result |-> result]>>

GetReactLimits(variant) ==
  /\ call' = [op |-> "getReactLimits", variant |-> variant]
  /\ result' = getReactLimits(store, variant)
  /\ saved' = Previous
  /\ UNCHANGED store

GetServerLimits(framework) ==
  /\ call' = [op |-> "getServerLimits", variant |-> framework]
  /\ result' = getServerLimits(store, framework)
  /\ saved' = Previous
  /\ UNCHANGED store

GetFirebaseLimits ==
  /\ call' = [op |-> "getFirebaseLimits", variant |-> Undefined]
  /\ result' = getFirebaseLimits(store)
  /\ saved' = Previous
  /\ UNCHANGED store

GetJavaLimits ==
  /\ call' = [op |-> "getJavaLimits", variant |-> Undefined]
  /\ result' = getJavaLimits(store)
  /\ saved' = Previous
  /\ UNCHANGED store

GetDotNetLimits ==
  /\ call' = [op |-> "getDotNetLimits", variant |-> Undefined]
  /\ result' = getDotNetLimits(store)
  /\ saved' = Previous
  /\ UNCHANGED store

GetAngularLimits ==
  /\ call' = [op |-> "getAngularLimits", variant |-> Undefined]
  /\ result' = getAngularLimits(store)
  /\ saved' = Previous
  /\ UNCHANGED store

NextRules ==
  \/ \E variant \in Variants : GetReactLimits(variant)
  \/ \E framework \in Variants : GetServerLimits(framework)
  \/ GetFirebaseLimits
  \/ GetJavaLimits
  \/ GetDotNetLimits
  \/ GetAngularLimits

SpecRules == InitRules /\ [][NextRules]_vars

----------------------------------------------------------------------------
(* The analysis of a tree, as far as its control flow goes: which checker  *)
(* analyzeByType dispatches to for each type, and where an exception is    *)
(* thrown. The issues a checker finds depend on the source files, which a  *)
(* tree of signals does not hold. An operation that can throw returns      *)
(* [threw |-> TRUE, message |-> m] or [threw |-> FALSE, value |-> v].      *)

Threw(message) == [threw |-> TRUE, message |-> message]

Returns(value) == [threw |-> FALSE, value |-> value]

\* JSON.parse(await this.readFile(path)) behind an existence check
parseIfExists(content) ==
  IF content = NoFile THEN Returns(Null)
  ELSE IF content.valid THEN Returns(content.json)
  ELSE Threw("Unexpected token in JSON")

analyzeNodeProject(tree, variant) ==
  LET packageJson == parseIfExists(tree.packageJson)
  IN IF packageJson.threw THEN packageJson ELSE Returns(<<"analyzeNodeProject">>)

\* the checkers run for one type: none when no case of the switch matches
analyzeByType(tree, projectType) ==
  CASE projectType \in {"react", "react-native"} -> Returns(<<"analyzeReactProject">>)
    [] projectType \in {"nodejs", "nextjs", "nest"} -> analyzeNodeProject(tree, projectType)
    [] projectType = "firebase-functions" -> Returns(<<"analyzeFirebaseFunctions">>)
    [] projectType = "java" -> Returns(<<"analyzeJavaProject">>)
    [] projectType = "dotnet" -> Returns(<<"analyzeDotNetProject">>)
    [] projectType = "angular" -> Returns(<<"analyzeAngularProject">>)
    [] projectType = "aws-amplify" -> Returns(<<"analyzeAmplifyProject">>)
    [] OTHER -> Returns(<<>>)

\* the first of the outcomes that threw, or Returns(value) when none did
firstThrown(outcomes, value) ==
  LET thrown == {n \in 1..Len(outcomes) : outcomes[n].threw}
  IN IF thrown = {} THEN Returns(value)
     ELSE outcomes[CHOOSE n \in thrown : \A k \in thrown : n <= k]

\* for (const projectType of projectInfo.types): the checkers run per type
analyzeTypes(tree, types) ==
  firstThrown([n \in 1..Len(types) |-> analyzeByType(tree, types[n])],
              [n \in 1..Len(types) |->
                 [type |-> types[n], checkers |-> analyzeByType(tree, types[n]).value]])

checkMultiProjectIssues(tree, subProjects) ==
  firstThrown([n \in 1..Len(subProjects) |->
                 parseIfExists(subPackageJsonOf(tree, subProjects[n].path))],
              <<>>)

\* the first of two steps that threw, or Returns(value)
bothOrThrown(first, second, value) ==
  IF first.threw THEN first ELSE IF second.threw THEN second ELSE Returns(value)

\* analyzeQuality on a tree: the checkers it ran, type by type
analyzeQualityOf(tree, projectInfo) ==
  bothOrThrown(analyzeTypes(tree, projectInfo.types),
               IF projectInfo.isMultiProject /\ projectInfo.subProjects # Undefined
               THEN checkMultiProjectIssues(tree, projectInfo.subProjects[1])
               ELSE Returns(<<>>),
               [projectTypes |-> projectInfo.types,
                ran |-> analyzeTypes(tree, projectInfo.types).value])

\* path.join(projectPath, ...) of detectProject throws on a missing path
detectProjectAt(tree, projectPath, deep) ==
  IF projectPath = Undefined
  THEN Threw("The \"path\" argument must be of type string. Received undefined")
  ELSE Returns(detectProject(tree, deep))

----------------------------------------------------------------------------
(* The tool handler of the server                                          *)

Failure(message) ==
  [rejected |-> FALSE, isError |-> TRUE, content |-> [text |-> <<"Error: ", message>>]]

Success(payload) ==
  [rejected |-> FALSE, isError |-> FALSE, content |-> [text |-> payload]]

\* a handler without the try/catch: the exception leaves the handler
CallToolRequestHandlerNoCatch(request, tree) ==
  IF request.name \notin {"analyze_project", "check_quality", "get_recommendations"}
     \/ request.projectPath = Undefined
  THEN [rejected |-> TRUE, isError |-> FALSE, content |-> [text |-> <<>>]]
  ELSE Success([projectTypes |-> <<>>, ran |-> <<>>])

\* the response of a handler whose body threw or returned
respond(outcome) ==
  IF outcome.threw THEN Failure(outcome.message) ELSE Success(outcome.value)

\* await analyzer.analyzeQuality(projectPath, projectInfo), once projectInfo is there
analyzeDetected(tree, projectInfo) ==
  IF projectInfo.threw THEN projectInfo ELSE analyzeQualityOf(tree, projectInfo.value)

\* getRecommendations: the fields it takes over from the report
getRecommendations(report, language) ==
  IF report.threw THEN report
  ELSE Returns([projectTypes |-> report.value.projectTypes, ran |-> report.value.ran,
                language |-> language])

CallToolRequestHandler(request, tree) ==
  CASE request.name = "analyze_project" ->
         respond(detectProjectAt(tree, request.projectPath,
                                 IF request.deep = Undefined THEN TRUE
                                 ELSE request.deep[1]))
    [] request.name = "check_quality" ->
         respond(analyzeDetected(tree,
                   IF request.projectType # Undefined
                   THEN Returns([types |-> <<request.projectType[1]>>,
                                 isMultiProject |-> FALSE, subProjects |-> Undefined,
                                 mainFramework |-> Undefined])
                   ELSE detectProjectAt(tree, request.projectPath, TRUE)))
    [] request.name = "get_recommendations" ->
         respond(getRecommendations(
                   analyzeDetected(tree, detectProjectAt(tree, request.projectPath, TRUE)),
                   IF request.language = Undefined THEN "he" ELSE request.language[1]))
    [] OTHER -> Failure("Unknown tool: " \o request.name)

----------------------------------------------------------------------------
(* Specification of the server: one process answering requests on a tree.  *)
(* saved holds the state of the process and, for the comparison of equal   *)
(* requests, the first request it answered and whether one failed since.   *)

ServerSignals ==
  {<<"dep", "express", "">>, <<"dep", "@nestjs/core", "">>, <<"dep", "react", "">>,
   <<"manifest", "package.json", "invalid">>, <<"functions", "functions", "firebase">>}

ServerTrees ==
  {TreeOf(S) : S \in {x \in SubsetsUpTo(ServerSignals, MaxSignals) : Coherent(x)}}

OverrideTypes ==
  {"react", "react-native", "java", "nodejs", "nextjs", "nest", "dotnet", "angular",
   "firebase", "aws-amplify"}

Request(name, projectPath, deep, projectType, language) ==
  [name |-> name, projectPath |-> projectPath, deep |-> deep,
   projectType |-> projectType, language |-> language]

\* the requests sent: each tool with its optional arguments given or not,
\* each tool that reads the path first with the path missing, an unknown tool
Requests ==
       {Request("analyze_project", <<PathA>>, deep, Undefined, Undefined) :
          deep \in {Undefined, <<TRUE>>, <<FALSE>>}}
  \cup {Request("check_quality", <<PathA>>, Undefined, projectType, Undefined) :
          projectType \in {Undefined} \cup {<<o>> : o \in OverrideTypes}}
  \cup {Request("get_recommendations", <<PathA>>, Undefined, Undefined, language) :
          language \in {Undefined, <<"en">>}}
  \cup {Request(name, Undefined, Undefined, Undefined, Undefined) :
          name \in {"analyze_project", "check_quality", "get_recommendations"}}
  \cup {Request("get_coverage", <<PathA>>, Undefined, Undefined, Undefined)}

InitServer ==
  /\ \E tree \in ServerTrees : store = tree
  /\ saved = [running |-> TRUE, first |-> <<>>, failed |-> FALSE]
  /\ call = [name |-> "none"]
  /\ result = Null

CallTool(request) ==
  LET response == CallToolRequestHandler(request, store)
  IN /\ saved.running
     /\ call' = request
     /\ result' = response
     /\ saved' = [running |-> ~response.rejected,
                  first |-> IF saved.first = <<>>
                            THEN <<[call |-> request, result |-> response]>>
                            ELSE saved.first,
                  failed |-> IF saved.first = <<>> THEN FALSE
                             ELSE saved.failed \/ response.isError \/ response.rejected]
     /\ UNCHANGED store

NextServer == \E request \in Requests : CallTool(request)

SpecServer == InitServer /\ [][NextServer]_vars

----------------------------------------------------------------------------
(* Source text. A file's content is the sequence of its lines, as          *)
(* content.split('\n') gives them: never empty, one empty line for an      *)
(* empty or unreadable file. A line is a sequence of tokens, each a piece  *)
(* of text; the tokens are chosen so that no pattern the checkers look for *)
(* spans two tokens or lies inside one: "console.log", "from '", "../",    *)
(* "{", "}" and the declaration keywords occur only as whole tokens.       *)

Keywords == {"function ", "const ", "async function "}

FunctionNames == {"f", "g"}

LongText ==
  "/* 0123456789 0123456789 0123456789 0123456789 0123456789 0123456789 0123456789 0123456789 0123456789 0123456789 0123456789 */"

\* line.length
RECURSIVE lineLength(_)
lineLength(line) ==
  IF line = <<>> THEN 0 ELSE Len(line[1]) + lineLength(Tail(line))

\* the character offset at which token t of the line starts
offsetOf(line, t) == lineLength(SubSeq(line, 1, t - 1))

\* line.includes('console.log')
includesConsoleLog(line) == \E t \in 1..Len(line) : line[t] = "console.log"

\* the token after the last "../" of the run of traversals starting at token t
traversalsEnd(line, t) ==
  CHOOSE e \in t..(Len(line) + 1) :
    /\ \A k \in t..(e - 1) : line[k] = "../"
    /\ e <= Len(line) => line[e] # "../"

\* the tokens at which /from\s+['"](\.\.\/){2,}/ matches
deepImportMatches(line) ==
  {t \in 1..Len(line) : line[t] = "from '" /\ traversalsEnd(line, t + 1) >= t + 3}

\* regex.test(line) for a regex without the g flag
testDeepImport(line) == deepImportMatches(line) # {}

\* regex.test(line) for a regex with the g flag: the search starts at
\* lastIndex; a match leaves lastIndex at its end, a failure resets it to 0.
\* Returns <<matched, lastIndex>>.
testGlobal(line, lastIndex) ==
  LET from == {t \in deepImportMatches(line) : offsetOf(line, t) >= lastIndex}
  IN IF from = {} THEN <<FALSE, 0>>
     ELSE <<TRUE, offsetOf(line, traversalsEnd(line, 1 + CHOOSE t \in from :
                                                  \A u \in from : t <= u))>>

\* /^(export\s+)?(const|function|async\s+function)\s+(\w+)/ : the name
\* matched (match[3]), <<>> when the line does not match
matchFunction(line) ==
  LET at == IF Len(line) >= 1 /\ line[1] = "export " THEN 2 ELSE 1
  IN IF Len(line) > at /\ line[at] \in Keywords /\ line[at + 1] \in FunctionNames
     THEN <<line[at + 1]>> ELSE <<>>

----------------------------------------------------------------------------
(* CodeAnalysisUtils, and the same scans as QualityAnalyzer writes them    *)

\* the members of a set of line numbers in the order forEach visits them
ascending(S) ==
  [k \in 1..Cardinality(S) |->
     CHOOSE n \in S : Cardinality({m \in S : m < n}) = k - 1]

checkLineLength(lines, maxLength) ==
  LET violations == ascending({n \in 1..Len(lines) : lineLength(lines[n]) > maxLength})
  IN [k \in 1..Len(violations) |->
        [line |-> violations[k], length |-> lineLength(lines[violations[k]])]]

checkConsoleLogs(lines) ==
  LET violations == ascending({n \in 1..Len(lines) : includesConsoleLog(lines[n])})
  IN [k \in 1..Len(violations) |-> [line |-> violations[k]]]

checkDeepImports(lines) ==
  LET violations == ascending({n \in 1..Len(lines) : testDeepImport(lines[n])})
  IN [k \in 1..Len(violations) |-> [line |-> violations[k]]]

\* QualityAnalyzer: one relativeImportRegex with the g flag per file, tested
\* on line after line; lastIndex is what the tests of the lines before left
RECURSIVE lastIndexBefore(_, _)
lastIndexBefore(lines, n) ==
  IF n = 1 THEN 0
  ELSE testGlobal(lines[n - 1], lastIndexBefore(lines, n - 1))[2]

relativeImportLines(lines) ==
  ascending({n \in 1..Len(lines) : testGlobal(lines[n], lastIndexBefore(lines, n))[1]})

\* findFunctions: the brace characters of lines i.. in reading order are the
\* positions <<j, t>>; braceCount and started after the character at <<j, t>>
bracesUpTo(lines, i, j, t, brace) ==
  Cardinality({p \in UNION {{<<k, u>> : u \in 1..Len(lines[k])} : k \in i..j} :
                 /\ (p[1] < j \/ p[2] <= t)
                 /\ lines[p[1]][p[2]] = brace})

braceCount(lines, i, j, t) ==
  bracesUpTo(lines, i, j, t, "{") - bracesUpTo(lines, i, j, t, "}")

started(lines, i, j, t) == bracesUpTo(lines, i, j, t, "{") > 0

\* line j holds a '}' at which started && braceCount === 0: endLine = j
closesOn(lines, i, j) ==
  \E t \in 1..Len(lines[j]) :
    /\ lines[j][t] = "}"
    /\ started(lines, i, j, t)
    /\ braceCount(lines, i, j, t) = 0

\* after line j: if (started && braceCount === 0) break
stopsAfter(lines, i, j) ==
  /\ started(lines, i, j, Len(lines[j]))
  /\ braceCount(lines, i, j, Len(lines[j])) = 0

\* endLine (0-based i in the code, 1-based here) of the declaration on line i
endLineOf(lines, i) ==
  LET stops == {j \in i..Len(lines) : closesOn(lines, i, j) \/ stopsAfter(lines, i, j)}
      last == CHOOSE j \in stops : \A k \in stops : j <= k
  IN IF stops = {} THEN i
     ELSE IF closesOn(lines, i, last) THEN last ELSE i

findFunctions(content) ==
  LET declared == ascending({i \in 1..Len(content) : matchFunction(content[i]) # <<>>})
  IN [k \in 1..Len(declared) |->
        [name |-> matchFunction(content[declared[k]])[1],
         startLine |-> declared[k],
         endLine |-> endLineOf(content, declared[k])]]

----------------------------------------------------------------------------
(* The paths the trees of the model are made of, in listing order          *)

ComponentNames == <<"Button", "Card">>

componentPaths(name) ==
  LET dir == <<"src", "components", name>>
  IN <<dir,
       dir \o <<"index.tsx">>, dir \o <<"index.jsx">>, dir \o <<"types.ts">>,
       dir \o <<"styles.ts">>, dir \o <<"const.ts">>,
       dir \o <<"hooks">>,
       dir \o <<"hooks", "use" \o name \o "State.ts">>,
       dir \o <<"hooks", "use" \o name \o "Logic.ts">>,
       dir \o <<"hooks", "use" \o name \o "Effects.ts">>,
       dir \o <<"components">>,
       dir \o <<"components", "Icon">>,
       dir \o <<"components", "Icon", "index.tsx">>>>

ReactPaths ==
  <<<<"src">>, <<"src", "App.tsx">>, <<"src", "App.test.tsx">>,
    <<"src", "components">>, <<"src", "pages">>, <<"src", "hooks">>,
    <<"src", "services">>, <<"src", "utils">>, <<"src", "types">>,
    <<"src", "assets">>, <<"src", "styles">>>>
  \o componentPaths("Button") \o componentPaths("Card")

NodePaths ==
  <<<<"package.json">>,
    <<"src", "routes">>, <<"src", "routes", "users.ts">>,
    <<"src", "controllers">>, <<"src", "models">>, <<"src", "middleware">>,
    <<"src", "config">>, <<"src", "validators">>, <<"src", "modules">>,
    <<"src", "dto">>,
    <<"app">>, <<"components">>, <<"lib">>, <<"public">>>>

FirebasePaths ==
  <<<<"functions">>, <<"functions", "src">>,
    <<"functions", "src", "index.ts">>,
    <<"functions", "src", "constants">>,
    <<"functions", "src", "constants", "index.ts">>,
    <<"functions", "src", "constants", "security.ts">>,
    <<"functions", "src", "function">>,
    <<"functions", "src", "function", "index.ts">>,
    <<"functions", "src", "function", "securityUtils.ts">>,
    <<"functions", "src", "functions">>,
    <<"functions", "src", "functions", "index.ts">>,
    <<"functions", "src", "functions", "family">>,
    <<"functions", "src", "functions", "family", "createFamily.ts">>,
    <<"functions", "src", "functions", "family", "Create_Family.ts">>,
    <<"functions", "src", "functions", "auth">>>>

JavaBase == <<"src", "main", "java", "com", "app">>

JavaPaths ==
  <<<<"src", "main">>, <<"src", "main", "java">>, <<"src", "main", "java", "com">>,
    JavaBase,
    JavaBase \o <<"Application.java">>,
    JavaBase \o <<"controller">>, JavaBase \o <<"service">>,
    JavaBase \o <<"repository">>, JavaBase \o <<"model">>,
    JavaBase \o <<"entity">>, JavaBase \o <<"dto">>, JavaBase \o <<"config">>,
    JavaBase \o <<"exception">>,
    JavaBase \o <<"user">>,
    JavaBase \o <<"user", "UserController.java">>,
    JavaBase \o <<"user", "UserService.java">>>>

DotNetPaths ==
  <<<<"App.sln">>, <<"Program.cs">>, <<"Worker.cs">>,
    <<"Domain">>, <<"Domain", "Entities">>, <<"WebAPI">>,
    <<"Controllers">>, <<"Models">>, <<"Entities">>, <<"Services">>, <<"Data">>>>

AngularPaths ==
  <<<<"src", "app">>, <<"src", "app", "app.component.ts">>,
    <<"src", "app", "core">>, <<"src", "app", "core", "services">>,
    <<"src", "app", "shared">>, <<"src", "app", "shared", "components">>,
    <<"src", "app", "features">>, <<"src", "app", "features", "home">>,
    <<"src", "app", "features", "home", "components">>,
    <<"src", "app", "modules">>, <<"src", "environments">>>>

AmplifyPaths == <<<<"amplify">>, <<"amplify", "config.json">>>>

AllPaths ==
  ReactPaths \o NodePaths \o FirebasePaths \o JavaPaths \o DotNetPaths
    \o AngularPaths \o AmplifyPaths

----------------------------------------------------------------------------
(* The project tree the checkers read. A path is the sequence of its       *)
(* segments; a tree is the set of its directories and the content of each  *)
(* of its files, every path having its parent directory in the tree.      *)
(* AllPaths lists, in the order a directory listing (glob) returns them,   *)
(* the paths the trees of the model are made of.                           *)

join(path, segments) == path \o segments

\* an empty file: ''.split('\n') is ['']
EmptyContent == <<<<>>>>

isPrefix(p, q) == Len(p) <= Len(q) /\ SubSeq(q, 1, Len(p)) = p

\* fs.access(path) succeeds
fileExists(tree, path) == path \in tree.dirs \/ path \in DOMAIN tree.files

\* fs.readFile(path, 'utf-8') split into lines; '' when it cannot be read
readFile(tree, path) ==
  IF path \in DOMAIN tree.files THEN tree.files[path] ELSE EmptyContent

\* the entries of the listing that are directly inside directory cwd
childrenOf(tree, cwd) ==
  SelectSeq(AllPaths, LAMBDA p : /\ Len(p) = Len(cwd) + 1
                                /\ isPrefix(cwd, p)
                                /\ fileExists(tree, p))

\* glob('*/', {cwd}): the directories directly inside cwd
globDirs(tree, cwd) ==
  SelectSeq(childrenOf(tree, cwd), LAMBDA p : p \in tree.dirs)

\* path.extname of the file names the trees hold
extname(name) ==
  CASE name \in {"index.tsx", "App.tsx", "App.test.tsx"} -> ".tsx"
    [] name \in {"index.jsx"} -> ".jsx"
    [] name \in {"index.ts", "types.ts", "styles.ts", "const.ts", "security.ts",
                 "securityUtils.ts", "createFamily.ts", "Create_Family.ts",
                 "users.ts", "app.component.ts",
                 "useButtonState.ts", "useButtonLogic.ts", "useButtonEffects.ts",
                 "useCardState.ts", "useCardLogic.ts", "useCardEffects.ts"} -> ".ts"
    [] name \in {"Application.java", "UserController.java", "UserService.java"} -> ".java"
    [] name \in {"Program.cs", "Worker.cs"} -> ".cs"
    [] name \in {"App.sln"} -> ".sln"
    [] name \in {"package.json", "config.json"} -> ".json"
    [] OTHER -> ""

\* the ignore patterns '**/*.test.*' and '**/*.spec.*'
isTestFile(name) == name \in {"App.test.tsx"}

basename(path) == path[Len(path)]

\* glob('<cwd>/**/*.{extensions}', {ignore: tests}): the files under cwd
globFiles(tree, cwd, extensions) ==
  SelectSeq(AllPaths, LAMBDA p : /\ p \in DOMAIN tree.files
                                /\ Len(p) > Len(cwd)
                                /\ isPrefix(cwd, p)
                                /\ extname(basename(p)) \in extensions)

withoutTests(files) == SelectSeq(files, LAMBDA p : ~isTestFile(basename(p)))

\* Trees are made from a base tree by at most MaxEdits edits <<kind, path,
\* content>>: "rm" removes the path and what is under it, "mkdir" makes a
\* directory, "write" a file, each with the directories leading to it.
ancestors(path) == {SubSeq(path, 1, k) : k \in 1..(Len(path) - 1)}

editsOf(edits, kind) == {e \in edits : e[1] = kind}

under(paths, path) == \E r \in paths : isPrefix(r, path)

keptFiles(base, edits) ==
  {p \in DOMAIN base.files : ~under({e[2] : e \in editsOf(edits, "rm")}, p)}

writtenFiles(edits) == {e[2] : e \in editsOf(edits, "write")}

contentOf(base, edits, path) ==
  IF path \in writtenFiles(edits)
  THEN (CHOOSE e \in editsOf(edits, "write") : e[2] = path)[3]
  ELSE base.files[path]

applyEdits(base, edits) ==
  [dirs |->
     {d \in base.dirs : ~under({e[2] : e \in editsOf(edits, "rm")}, d)}
       \cup {e[2] : e \in editsOf(edits, "mkdir")}
       \cup UNION {ancestors(e[2]) : e \in editsOf(edits, "mkdir") \cup editsOf(edits, "write")},
   files |->
     [p \in keptFiles(base, edits) \cup writtenFiles(edits) |->
        contentOf(base, edits, p)]]

\* no two edits of one path, nothing made under a removed path
CoherentEdits(edits) ==
  /\ \A e, f \in edits : e[2] = f[2] => e = f
  /\ \A e, f \in edits : e[1] = "rm" /\ f[1] # "rm" => ~isPrefix(e[2], f[2])

\* the base tree holding the given directories and empty files
treeOf(dirs, files) ==
  [dirs |-> dirs \cup UNION {ancestors(p) : p \in dirs \cup files},
   files |-> [p \in files |-> EmptyContent]]

TreesFrom(base, Edits) ==
  {applyEdits(base, edits) :
     edits \in {x \in SubsetsUpTo(Edits, MaxEdits) : CoherentEdits(x)}}

----------------------------------------------------------------------------
(* The React checker: QualityAnalyzer.analyzeReactProject, and its second  *)
(* implementation in ReactAnalysisService                                  *)

Issue(severity, category, file, line, message, rule) ==
  [severity |-> severity, category |-> category, file |-> file, line |-> line,
   message |-> message, rule |-> rule]

RECURSIVE flatten(_)
flatten(lists) == IF lists = <<>> THEN <<>> ELSE Head(lists) \o flatten(Tail(lists))

\* for (const x of list) { issues.push(...body(x)) }
forEach(list, body(_)) == flatten([n \in 1..Len(list) |-> body(list[n])])

\* if (condition) issues.push(issue)
pushIf(condition, issue) == IF condition THEN <<issue>> ELSE <<>>

\* a || b on numbers
orElse(value, default) == IF value = 0 THEN default ELSE value

\* the text of a path, as the code interpolates it into a message
RECURSIVE pathText(_)
pathText(path) ==
  IF Len(path) = 1 THEN path[1]
  ELSE pathText(SubSeq(path, 1, Len(path) - 1)) \o "/" \o path[Len(path)]

Folder(path, description, optional) ==
  [path |-> path, description |-> description, optional |-> optional]

reactRequiredFolders ==
  <<Folder(<<"src", "components">>, "Reusable UI components", FALSE),
    Folder(<<"src", "pages">>, "Page components", TRUE),
    Folder(<<"src", "features">>, "Feature-based modules", TRUE),
    Folder(<<"src", "hooks">>, "Custom React hooks", FALSE),
    Folder(<<"src", "services">>, "API and business logic", FALSE),
    Folder(<<"src", "utils">>, "Helper functions", FALSE),
    Folder(<<"src", "types">>, "TypeScript types/interfaces", FALSE),
    Folder(<<"src", "assets">>, "Images, fonts, icons", FALSE),
    Folder(<<"src", "styles">>, "Global styles", TRUE),
    Folder(<<"src", "context">>, "React Context providers", TRUE),
    Folder(<<"src", "store">>, "State management (Redux/Zustand)", TRUE)>>

\* the loop over the required folders of a checker
missingFolders(tree, folders, category, rule, prefix) ==
  forEach(folders, LAMBDA folder :
    pushIf(~fileExists(tree, folder.path) /\ ~folder.optional,
           Issue("warning", category, Undefined, Undefined,
                 prefix \o pathText(folder.path) \o " - " \o folder.description,
                 rule)))

componentRequiredFiles ==
  <<[file |-> "index.tsx", optional |-> FALSE],
    [file |-> "index.jsx", optional |-> TRUE],
    [file |-> "types.ts", optional |-> FALSE],
    [file |-> "styles.ts", optional |-> FALSE],
    [file |-> "const.ts", optional |-> FALSE]>>

missingIndex(tree, dir) ==
  pushIf(/\ ~fileExists(tree, join(dir, <<"index.tsx">>))
         /\ ~fileExists(tree, join(dir, <<"index.jsx">>)),
         Issue("error", "react-structure", <<dir>>, Undefined,
               "Component " \o basename(dir)
                 \o " missing required file: index.tsx or index.jsx",
               "react-component-structure"))

\* every file of the list is taken as optional: nothing is reported
missingRequiredFilesAllOptional(tree, dir) == <<>>

missingRequiredFiles(tree, dir) ==
  forEach(componentRequiredFiles, LAMBDA required :
    pushIf(/\ required.file \notin {"index.tsx", "index.jsx"}
           /\ ~required.optional
           /\ ~fileExists(tree, join(dir, <<required.file>>)),
           Issue("warning", "react-structure", <<dir>>, Undefined,
                 "Component " \o basename(dir) \o " missing required file: "
                   \o required.file,
                 "react-component-structure")))

expectedHooks(componentName) ==
  <<"use" \o componentName \o "State.ts",
    "use" \o componentName \o "Logic.ts",
    "use" \o componentName \o "Effects.ts">>

hooksStructure(tree, dir) ==
  IF fileExists(tree, join(dir, <<"hooks">>))
  THEN forEach(expectedHooks(basename(dir)), LAMBDA hookFile :
         pushIf(~fileExists(tree, join(dir, <<"hooks", hookFile>>)),
                Issue("info", "react-structure", <<join(dir, <<"hooks">>)>>, Undefined,
                      "Missing recommended hook file: " \o hookFile,
                      "react-hooks-structure")))
  ELSE pushIf(Len(globFiles(tree, dir, {".tsx", ".jsx", ".ts", ".js"})) > 3,
              Issue("warning", "react-structure", <<dir>>, Undefined,
                    "Complex component " \o basename(dir)
                      \o " should have a hooks/ folder",
                    "react-component-structure"))

subComponentsStructure(tree, dir) ==
  forEach(IF fileExists(tree, join(dir, <<"components">>))
          THEN globDirs(tree, join(dir, <<"components">>)) ELSE <<>>,
          LAMBDA subComp :
    pushIf(/\ ~fileExists(tree, join(subComp, <<"index.tsx">>))
           /\ ~fileExists(tree, join(subComp, <<"index.jsx">>)),
           Issue("warning", "react-structure", <<subComp>>, Undefined,
                 "Sub-component missing index.tsx or index.jsx",
                 "react-subcomponent-structure")))

\* ReactAnalysisService.checkReactComponentStructure
ReactAnalysisService_checkReactComponentStructure(tree) ==
     missingFolders(tree, reactRequiredFolders, "react-organization",
                    "react-folder-structure", "Missing required folder: ")
  \o forEach(globDirs(tree, <<"src", "components">>), LAMBDA dir :
          missingIndex(tree, dir)
       \o hooksStructure(tree, dir))

\* QualityAnalyzer.checkReactComponentStructure
checkReactComponentStructure(tree) ==
     missingFolders(tree, reactRequiredFolders, "react-organization",
                    "react-folder-structure", "Missing required folder: ")
  \o forEach(globDirs(tree, <<"src", "components">>), LAMBDA dir :
          missingIndex(tree, dir)
       \o missingRequiredFiles(tree, dir)
       \o hooksStructure(tree, dir)
       \o subComponentsStructure(tree, dir))

\* the checks of one component file, in the order the loop body makes them
fileLength(limits, file, lines) ==
  pushIf(Len(lines) > limits.maxLines,
         Issue("warning", "file-size", <<file>>, Undefined,
               "File exceeds " \o ToString(limits.maxLines) \o " lines ("
                 \o ToString(Len(lines)) \o " lines)",
               "max-file-lines"))

\* the 0-based index is reported as the line
consoleLogsZeroBased(file, lineNumbers) ==
  forEach(lineNumbers, LAMBDA n :
    <<Issue("error", "code-quality", <<file>>, <<n - 1>>,
            "Console.log found - use logger instead", "no-console")>>)

consoleLogs(file, lineNumbers) ==
  forEach(lineNumbers, LAMBDA n :
    <<Issue("error", "code-quality", <<file>>, <<n>>,
            "Console.log found - use logger instead", "no-console")>>)

deepImports(file, lineNumbers) ==
  forEach(lineNumbers, LAMBDA n :
    <<Issue("warning", "imports", <<file>>, <<n>>,
            "Deep relative import found - use path aliases", "no-deep-imports")>>)

longLines(limits, file, lines) ==
  forEach(checkLineLength(lines, orElse(limits.maxLineLength, 120)), LAMBDA violation :
    <<Issue("info", "code-style", <<file>>, <<violation.line>>,
            "Line exceeds " \o ToString(orElse(limits.maxLineLength, 120))
              \o " characters (" \o ToString(violation.length) \o " chars)",
            "max-line-length")>>)

longFunctions(limits, file, content) ==
  forEach(findFunctions(content), LAMBDA func :
    pushIf(func.endLine - func.startLine + 1 > orElse(limits.maxFunctionLines, 30),
           Issue("warning", "function-length", <<file>>, <<func.startLine>>,
                 "Function '" \o func.name \o "' exceeds "
                   \o ToString(orElse(limits.maxFunctionLines, 30)) \o " lines ("
                   \o ToString(func.endLine - func.startLine + 1) \o " lines)",
                 "max-function-lines")))

lineNumbersOf(violations) == [k \in 1..Len(violations) |-> violations[k].line]

\* glob('src/**/*.{tsx,jsx}', {ignore: node_modules, tests})
componentFilesOf(tree) == withoutTests(globFiles(tree, <<"src">>, {".tsx", ".jsx"}))

ReactAnalysisService_analyzeReactProject(tree, variant) ==
     ReactAnalysisService_checkReactComponentStructure(tree)
  \o forEach(componentFilesOf(tree), LAMBDA file :
          fileLength(getReactLimits(QualityRules, <<variant>>), file, readFile(tree, file))
       \o consoleLogs(file, lineNumbersOf(checkConsoleLogs(readFile(tree, file))))
       \o deepImports(file, lineNumbersOf(checkDeepImports(readFile(tree, file))))
       \o longLines(getReactLimits(QualityRules, <<variant>>), file, readFile(tree, file))
       \o longFunctions(getReactLimits(QualityRules, <<variant>>), file,
                        readFile(tree, file)))

\* the lexical checks run before the structural ones
analyzeReactProjectLexicalFirst(tree, variant) ==
     forEach(componentFilesOf(tree), LAMBDA file :
          fileLength(getReactLimits(QualityRules, <<variant>>), file, readFile(tree, file))
       \o consoleLogs(file, lineNumbersOf(checkConsoleLogs(readFile(tree, file))))
       \o deepImports(file, relativeImportLines(readFile(tree, file)))
       \o longLines(getReactLimits(QualityRules, <<variant>>), file, readFile(tree, file))
       \o longFunctions(getReactLimits(QualityRules, <<variant>>), file,
                        readFile(tree, file)))
  \o checkReactComponentStructure(tree)

\* QualityAnalyzer.analyzeReactProject
analyzeReactProject(tree, variant) ==
     checkReactComponentStructure(tree)
  \o forEach(componentFilesOf(tree), LAMBDA file :
          fileLength(getReactLimits(QualityRules, <<variant>>), file, readFile(tree, file))
       \o consoleLogs(file, lineNumbersOf(checkConsoleLogs(readFile(tree, file))))
       \o deepImports(file, relativeImportLines(readFile(tree, file)))
       \o longLines(getReactLimits(QualityRules, <<variant>>), file, readFile(tree, file))
       \o longFunctions(getReactLimits(QualityRules, <<variant>>), file,
                        readFile(tree, file)))

----------------------------------------------------------------------------
(* React projects: a tree that meets every convention, changed by at most  *)
(* MaxEdits edits, with src/App.tsx holding one of the contents below.     *)

AppTsx == <<"src", "App.tsx">>

completeComponent(name) ==
  LET dir == <<"src", "components", name>>
  IN {dir \o <<"index.tsx">>, dir \o <<"types.ts">>, dir \o <<"styles.ts">>,
      dir \o <<"const.ts">>,
      dir \o <<"hooks", "use" \o name \o "State.ts">>,
      dir \o <<"hooks", "use" \o name \o "Logic.ts">>,
      dir \o <<"hooks", "use" \o name \o "Effects.ts">>}

CleanReactTree ==
  treeOf({<<"src", "components">>, <<"src", "hooks">>, <<"src", "services">>,
          <<"src", "utils">>, <<"src", "types">>, <<"src", "assets">>},
         {AppTsx} \cup completeComponent("Button") \cup completeComponent("Card"))

ReactEdits ==
       {<<"rm", p, EmptyContent>> :
          p \in {<<"src", "components">>, <<"src", "hooks">>, <<"src", "services">>,
                 <<"src", "types">>}}
  \cup {<<"mkdir", p, EmptyContent>> : p \in {<<"src", "pages">>, <<"src", "styles">>}}
  \cup {<<"rm", <<"src", "components", c, f>>, EmptyContent>> :
          c \in {"Button", "Card"},
          f \in {"index.tsx", "types.ts", "styles.ts", "const.ts", "hooks"}}
  \cup {<<"rm", <<"src", "components", "Button", "hooks", "useButtonEffects.ts">>,
          EmptyContent>>}
  \cup {<<"write", <<"src", "components", "Button", "index.jsx">>, EmptyContent>>}
  \cup {<<"mkdir", <<"src", "components", "Button", "components", "Icon">>,
          EmptyContent>>}
  \cup {<<"write", <<"src", "components", "Button", "components", "Icon", "index.tsx">>,
          EmptyContent>>}
  \cup {<<"write", <<"src", "App.test.tsx">>, <<<<"console.log", "(x)">>>>>>}

\* lines of source text
Blank == <<>>

ConsoleLine == <<"console.log", "(x)">>

DeepImportLine == <<"import a ", "from '", "../", "../", "a'">>

BareDeepImportLine == <<"from '", "../", "../", "../", "b'">>

ShallowImportLine == <<"import a ", "from '", "../", "a'">>

LongLine == <<LongText>>

TodoLine == <<"// TODO">>

FunctionLine == <<"function ", "f", "()", "{">>

CloseLine == <<"}">>

OpenLine == <<"{">>

\* a constant whose text holds a closing brace
ConstLine == <<"export ", "const ", "g", " = '", "}", "'">>

Lines ==
  {Blank, ConsoleLine, DeepImportLine, BareDeepImportLine, ShallowImportLine,
   LongLine, TodoLine, FunctionLine, CloseLine, OpenLine, ConstLine}

\* every content of at most MaxLines lines
ShortContents == UNION {[1..n -> Lines] : n \in 1..MaxLines}

\* n times the same line
repeatLine(line, n) == [k \in 1..n |-> line]

\* a function whose braces span n lines, n >= 2
functionOf(n) == <<FunctionLine>> \o repeatLine(Blank, n - 2) \o <<CloseLine>>

LongContents ==
       {functionOf(n) : n \in {2, 3, 30, 31}}
  \cup {<<ShallowImportLine>> \o functionOf(n) : n \in {30, 31}}
  \cup {repeatLine(Blank, n) : n \in {250, 251, 300, 301}}

Contents == ShortContents \cup LongContents

write(tree, path, content) ==
  [dirs |-> tree.dirs \cup ancestors(path),
   files |-> [p \in DOMAIN tree.files \cup {path} |->
                IF p = path THEN content ELSE tree.files[p]]]

ReactTrees ==
       {write(tree, AppTsx, content) :
          tree \in TreesFrom(CleanReactTree, ReactEdits),
          content \in {EmptyContent, <<ConsoleLine>>, <<DeepImportLine, DeepImportLine>>}}
  \cup {write(CleanReactTree, AppTsx, content) : content \in Contents}

----------------------------------------------------------------------------
(* Specification of the React checker: store is the project tree, the      *)
(* checkers run on it in any order.                                        *)

includesTodo(line) == \E t \in 1..Len(line) : line[t] \in {"// TODO", "// FIXME"}

firstN(list, n) == SubSeq(list, 1, MathMin(Len(list), n))

checkCommonIssues(tree) ==
  forEach(firstN(globFiles(tree, <<>>, {".js", ".ts", ".jsx", ".tsx", ".java", ".cs"}), 50),
          LAMBDA file :
    forEach(ascending({n \in 1..Len(readFile(tree, file)) :
                         includesTodo(readFile(tree, file)[n])}),
            LAMBDA n :
      <<Issue("info", "maintenance", <<file>>, <<n>>, "TODO/FIXME comment found",
              "no-todo")>>))

\* what detectProject reports for a project of the variant
ReactProjectInfo(variant) ==
  detectProject(TreeOf(IF variant = "react-native"
                       THEN {<<"dep", "react", "">>, <<"dep", "react-native", "">>,
                             <<"marker", "app.json", "">>}
                       ELSE {<<"dep", "react", "">>}),
                TRUE)

\* analyzeQuality on a tree all of whose types are React variants
analyzeQualityReact(tree, projectInfo) ==
  analyzeQuality(PathA, projectInfo,
                 forEach(projectInfo.types,
                         LAMBDA projectType : analyzeReactProject(tree, projectType))
                   \o checkCommonIssues(tree))

ReactVariants == {"react", "react-native"}

InitReact ==
  /\ store \in ReactTrees
  /\ saved = Null
  /\ call = [op |-> "new"]
  /\ result = Null

AnalyzeQualityReact(variant) ==
  /\ call' = [op |-> "analyzeQuality", variant |-> variant]
  /\ result' = analyzeQualityReact(store, ReactProjectInfo(variant))
  /\ UNCHANGED <<store, saved>>

AnalyzeReactProject(variant) ==
  /\ call' = [op |-> "analyzeReactProject", variant |-> variant]
  /\ result' = analyzeReactProject(store, variant)
  /\ UNCHANGED <<store, saved>>

ServiceAnalyzeReactProject(variant) ==
  /\ call' = [op |-> "ReactAnalysisService.analyzeReactProject", variant |-> variant]
  /\ result' = ReactAnalysisService_analyzeReactProject(store, variant)
  /\ UNCHANGED <<store, saved>>

FindFunctions ==
  /\ call' = [op |-> "findFunctions", content |-> readFile(store, AppTsx)]
  /\ result' = findFunctions(readFile(store, AppTsx))
  /\ UNCHANGED <<store, saved>>

NextReact ==
  \/ \E variant \in ReactVariants : AnalyzeQualityReact(variant)
  \/ \E variant \in ReactVariants : AnalyzeReactProject(variant)
  \/ \E variant \in ReactVariants : ServiceAnalyzeReactProject(variant)
  \/ FindFunctions

SpecReact == InitReact /\ [][NextReact]_vars

----------------------------------------------------------------------------
(* Specification of the recommendations: generateRecommendations applied   *)
(* to a list of at most MaxFindings issues of a project that is a          *)
(* multi-project or not.                                                   *)

FileSizeIssue ==
  [severity |-> "warning", category |-> "file-size", file |-> <<"src/App.tsx">>,
   line |-> Undefined, message |-> "File exceeds 300 lines (301 lines)",
   rule |-> "max-file-lines"]

FirebaseLinesIssue ==
  [severity |-> "error", category |-> "firebase-structure",
   file |-> <<"functions/src/index.ts">>, line |-> Undefined,
   message |-> "Firebase function file exceeds 300 lines (301 lines)",
   rule |-> "firebase-max-lines"]

FirebaseConstantsIssue ==
  [severity |-> "info", category |-> "firebase-structure", file |-> Undefined,
   line |-> Undefined,
   message |-> "Missing functions/src/constants/security.ts for security constants",
   rule |-> "firebase-constants-structure"]

FindingKinds ==
  {FileSizeIssue, ImportIssue, FirebaseLinesIssue, FirebaseConstantsIssue,
   ConsoleIssue, TodoIssue, DuplicateDependencyIssue}

InitRecommend ==
  /\ store = Null
  /\ saved = Null
  /\ call \in {[op |-> "new", issues |-> issues,
               projectInfo |-> [types |-> <<"react">>, isMultiProject |-> multi]] :
               issues \in UNION {[1..n -> FindingKinds] : n \in 0..MaxFindings},
               multi \in BOOLEAN}
  /\ result = Null

GenerateRecommendations ==
  /\ call.op = "new"
  /\ call' = [call EXCEPT !.op = "generateRecommendations"]
  /\ result' = generateRecommendations(call.issues, call.projectInfo)
  /\ UNCHANGED <<store, saved>>

NextRecommend == GenerateRecommendations

SpecRecommend == InitRecommend /\ [][NextRecommend]_vars

----------------------------------------------------------------------------
(* The checkers of the other project types. In the text they read, the     *)
(* words they look for ("System.out.println", "Console.WriteLine", the     *)
(* names of packages, the query words, ...) occur only as whole tokens.    *)

\* content.includesAny(word), for one of the words above
includesAny(content, words) ==
  \E n \in 1..Len(content) : \E t \in 1..Len(content[n]) : content[n][t] \in words

firstOf(list) == IF list = <<>> THEN <<>> ELSE <<list[1]>>

nodeRequiredFolders(variant) ==
  IF variant \in {"nextjs", "nextjs-app-router"}
  THEN <<Folder(<<"app">>, "App Router (Next.js 13+)", TRUE),
         Folder(<<"pages">>, "Pages Router", TRUE),
         Folder(<<"components">>, "React components", FALSE),
         Folder(<<"lib">>, "Library/utility functions", FALSE),
         Folder(<<"public">>, "Static assets", FALSE),
         Folder(<<"styles">>, "CSS/SCSS files", TRUE)>>
  ELSE IF variant = "nestjs"
  THEN <<Folder(<<"src", "modules">>, "Feature modules", FALSE),
         Folder(<<"src", "controllers">>, "HTTP controllers", TRUE),
         Folder(<<"src", "services">>, "Business logic services", TRUE),
         Folder(<<"src", "entities">>, "Database entities", TRUE),
         Folder(<<"src", "dto">>, "Data Transfer Objects", FALSE),
         Folder(<<"src", "guards">>, "Authentication guards", TRUE),
         Folder(<<"src", "interceptors">>, "Request interceptors", TRUE),
         Folder(<<"src", "pipes">>, "Validation pipes", TRUE),
         Folder(<<"src", "config">>, "Configuration files", FALSE)>>
  ELSE <<Folder(<<"src", "routes">>, "API routes/endpoints", FALSE),
         Folder(<<"src", "controllers">>, "Route controllers", FALSE),
         Folder(<<"src", "services">>, "Business logic layer", FALSE),
         Folder(<<"src", "models">>, "Data models/schemas", FALSE),
         Folder(<<"src", "middleware">>, "Express middleware", FALSE),
         Folder(<<"src", "utils">>, "Utility functions", FALSE),
         Folder(<<"src", "config">>, "Configuration files", FALSE),
         Folder(<<"src", "validators">>, "Input validation", TRUE),
         Folder(<<"src", "database">>, "Database connection/queries", TRUE)>>

QueryWords ==
  {"SELECT ", "INSERT INTO", "UPDATE ", "DELETE FROM", ".find(", ".save(",
   ".create(", ".update("}

\* the first of the first five route files that holds a query is reported
separationOfConcerns(tree, variant) ==
  IF variant \in {"nextjs", "nextjs-app-router"} THEN <<>>
  ELSE forEach(firstOf(SelectSeq(firstN(withoutTests(globFiles(tree, <<"src", "routes">>,
                                                               {".js", ".ts"})), 5),
                                 LAMBDA file : includesAny(readFile(tree, file), QueryWords))),
               LAMBDA file :
         <<Issue("error", "separation-of-concerns", <<file>>, Undefined,
                 "Database operations should be in service/repository layer, not in routes",
                 "node-separation-of-concerns")>>)

checkNodeProjectStructure(tree, variant) ==
     missingFolders(tree, nodeRequiredFolders(variant), "node-organization",
                    "node-folder-structure", "Missing required folder: ")
  \o separationOfConcerns(tree, variant)

\* package.json, as the trees hold it: one line, the names of the
\* dependencies between the braces
PackageJson(dependencies) == <<<<"{\"dependencies\":{">> \o dependencies \o <<"}}">>>>

\* Object.keys(JSON.parse(content).dependencies || {})
dependenciesOf(content) ==
  {content[1][t] : t \in 2..(Len(content[1]) - 1)}

commonUnused == <<"lodash", "moment", "axios">>

isUsed(tree, files, dep) ==
  \E k \in 1..Len(files) : includesAny(readFile(tree, files[k]), {dep})

unusedDependencies(tree) ==
  IF ~fileExists(tree, <<"package.json">>) THEN <<>>
  ELSE forEach(commonUnused, LAMBDA dep :
         pushIf(/\ dep \in dependenciesOf(readFile(tree, <<"package.json">>))
                /\ ~isUsed(tree, firstN(globFiles(tree, <<>>,
                                                  {".js", ".ts", ".jsx", ".tsx"}), 10), dep),
                Issue("info", "dependencies", Undefined, Undefined,
                      "Potentially unused dependency: " \o dep, "unused-dependency")))

\* analyzeNodeProject on the files of a tree
analyzeNodeFiles(tree, variant) ==
  checkNodeProjectStructure(tree, variant) \o unusedDependencies(tree)

----------------------------------------------------------------------------
(* Firebase Functions                                                      *)

FunctionsSrc == <<"functions", "src">>

\* glob('*.{ts,js}', {cwd}): the source files directly inside cwd
sourceFilesIn(tree, cwd) ==
  SelectSeq(childrenOf(tree, cwd),
            LAMBDA p : p \in DOMAIN tree.files /\ extname(basename(p)) \in {".ts", ".js"})

\* /^[a-z][a-zA-Z]*\.(ts|js)$/ on the file names the trees hold
isCamelCase(name) == name \in {"index.ts", "createFamily.ts"}

constantsStructure(tree, dirPath) ==
     pushIf(~fileExists(tree, join(dirPath, <<"index.ts">>)),
            Issue("warning", "firebase-structure", Undefined, Undefined,
                  "Missing functions/src/constants/index.ts",
                  "firebase-constants-structure"))
  \o pushIf(~fileExists(tree, join(dirPath, <<"security.ts">>)),
            Issue("info", "firebase-structure", Undefined, Undefined,
                  "Missing functions/src/constants/security.ts for security constants",
                  "firebase-constants-structure"))

utilsStructure(tree, dirPath) ==
     pushIf(~fileExists(tree, join(dirPath, <<"index.ts">>)),
            Issue("warning", "firebase-structure", Undefined, Undefined,
                  "Missing functions/src/function/index.ts for utility functions",
                  "firebase-utils-structure"))
  \o pushIf(~fileExists(tree, join(dirPath, <<"securityUtils.ts">>)),
            Issue("info", "firebase-structure", Undefined, Undefined,
                  "Missing functions/src/function/securityUtils.ts for security utilities",
                  "firebase-utils-structure"))

functionGroup(tree, group) ==
     pushIf(sourceFilesIn(tree, group) = <<>>,
            Issue("warning", "firebase-structure", Undefined, Undefined,
                  "Empty function group: functions/src/functions/" \o basename(group),
                  "firebase-function-organization"))
  \o forEach(sourceFilesIn(tree, group), LAMBDA file :
       pushIf(~isCamelCase(basename(file)),
              Issue("info", "firebase-naming", <<file>>, Undefined,
                    "Function files should use camelCase naming (e.g., createFamily.ts)",
                    "firebase-naming-convention")))

functionsStructure(tree, dirPath) ==
     (IF globDirs(tree, dirPath) = <<>>
      THEN <<Issue("warning", "firebase-structure", Undefined, Undefined,
                   "Functions should be organized in feature folders (e.g., functions/family/, functions/auth/)",
                   "firebase-function-organization")>>
      ELSE forEach(globDirs(tree, dirPath), LAMBDA group : functionGroup(tree, group)))
  \o pushIf(~fileExists(tree, join(dirPath, <<"index.ts">>)),
            Issue("warning", "firebase-structure", Undefined, Undefined,
                  "Missing functions/src/functions/index.ts to export all functions",
                  "firebase-exports"))

firebaseRequiredDirs ==
  <<[dir |-> "constants", severity |-> "error"],
    [dir |-> "function", severity |-> "error"],
    [dir |-> "functions", severity |-> "error"]>>

\* every directory of the list is taken as optional: none is reported
firebaseMissingDirNotReported(required) == <<>>

firebaseMissingDir(required) ==
  <<Issue(required.severity, "firebase-structure", Undefined, Undefined,
          "Missing required directory: functions/src/" \o required.dir,
          "firebase-folder-structure")>>

checkFirebaseStructure(tree) ==
  IF ~fileExists(tree, FunctionsSrc)
  THEN <<Issue("error", "firebase-structure", Undefined, Undefined,
               "Missing required directory: functions/src",
               "firebase-folder-structure")>>
  ELSE forEach(firebaseRequiredDirs, LAMBDA required :
         IF ~fileExists(tree, join(FunctionsSrc, <<required.dir>>))
         THEN firebaseMissingDir(required)
         ELSE CASE required.dir = "constants" ->
                     constantsStructure(tree, join(FunctionsSrc, <<required.dir>>))
                [] required.dir = "function" ->
                     utilsStructure(tree, join(FunctionsSrc, <<required.dir>>))
                [] required.dir = "functions" ->
                     functionsStructure(tree, join(FunctionsSrc, <<required.dir>>)))
       \o pushIf(~fileExists(tree, join(FunctionsSrc, <<"index.ts">>)),
                 Issue("error", "firebase-structure", Undefined, Undefined,
                       "Missing main entry point: functions/src/index.ts",
                       "firebase-entry-point"))

\* /^export\s+(const|function|async function)\s+(\w+)/gm : the lines that
\* start a declaration
exportedAt(lines) ==
  ascending({n \in 1..Len(lines) :
               /\ Len(lines[n]) >= 3
               /\ lines[n][1] = "export "
               /\ lines[n][2] \in Keywords
               /\ lines[n][3] \in FunctionNames})

\* a function ends where the next one starts, the last one with the file
checkFunctionLengths(lines, file, maxLines) ==
  forEach([k \in 1..Len(exportedAt(lines)) |->
             [name |-> lines[exportedAt(lines)[k]][3],
              startLine |-> exportedAt(lines)[k],
              endLine |-> IF k < Len(exportedAt(lines))
                          THEN exportedAt(lines)[k + 1] - 1 ELSE Len(lines)]],
          LAMBDA func :
    pushIf(func.endLine - func.startLine + 1 > maxLines,
           Issue("error", "firebase-function-length", <<file>>, <<func.startLine>>,
                 "Function '" \o func.name \o "' exceeds " \o ToString(maxLines)
                   \o " lines (" \o ToString(func.endLine - func.startLine + 1)
                   \o " lines)",
                 "firebase-function-max-lines")))

\* (content.match(/export\s+(const|function)\s+\w+/g) || []).length
exportCount(lines) ==
  Cardinality(UNION {{<<n, t>> : t \in {t \in 1..(Len(lines[n]) - 2) :
                                          /\ lines[n][t] = "export "
                                          /\ lines[n][t + 1] \in {"const ", "function "}
                                          /\ lines[n][t + 2] \in FunctionNames}} :
                     n \in 1..Len(lines)})

firebaseFile(limits, tree, file) ==
     pushIf(Len(readFile(tree, file)) > limits.maxLinesPerFile,
            Issue("error", "firebase-structure", <<file>>, Undefined,
                  "Firebase function file exceeds " \o ToString(limits.maxLinesPerFile)
                    \o " lines (" \o ToString(Len(readFile(tree, file))) \o " lines)",
                  "firebase-max-lines"))
  \o checkFunctionLengths(readFile(tree, file), file, limits.maxLinesPerFunction)
  \o pushIf(exportCount(readFile(tree, file)) > limits.maxFunctionsPerFile,
            Issue("error", "firebase-structure", <<file>>, Undefined,
                  "File has " \o ToString(exportCount(readFile(tree, file)))
                    \o " functions, max is " \o ToString(limits.maxFunctionsPerFile),
                  "firebase-max-functions"))
  \o pushIf(includesAny(readFile(tree, file), {"console.log"}),
            Issue("error", "firebase-logging", <<file>>, Undefined,
                  "Use logger.info/error instead of console.log in Firebase Functions",
                  "firebase-logger"))

\* the per-file checks run before the structural ones
analyzeFirebaseFunctionsLexicalFirst(tree) ==
     forEach(withoutTests(globFiles(tree, FunctionsSrc, {".ts", ".js"})), LAMBDA file :
       firebaseFile(getFirebaseLimits(QualityRules), tree, file))
  \o checkFirebaseStructure(tree)

analyzeFirebaseFunctions(tree) ==
     checkFirebaseStructure(tree)
  \o forEach(withoutTests(globFiles(tree, FunctionsSrc, {".ts", ".js"})), LAMBDA file :
       firebaseFile(getFirebaseLimits(QualityRules), tree, file))

----------------------------------------------------------------------------
(* Java / Spring Boot                                                      *)

Layer(path, description, altNames, optional) ==
  [path |-> path, description |-> description, altNames |-> altNames,
   optional |-> optional]

\* glob('**/src/main/java/**/*Application.java')
mainClassFiles(tree) ==
  SelectSeq(AllPaths, LAMBDA p :
    /\ p \in DOMAIN tree.files
    /\ basename(p) \in {"Application.java"}
    /\ \E k \in 0..(Len(p) - 4) : SubSeq(p, k + 1, k + 3) = <<"src", "main", "java">>)

\* glob('*/*/', {cwd}): the directories two levels inside cwd
globDirs2(tree, cwd) ==
  SelectSeq(AllPaths, LAMBDA p : /\ Len(p) = Len(cwd) + 2
                                /\ isPrefix(cwd, p)
                                /\ p \in tree.dirs)

dirname(path) == SubSeq(path, 1, Len(path) - 1)

\* the directory of the main class, else the first package of
\* src/main/java, else null
findJavaBasePackage(tree) ==
  IF mainClassFiles(tree) # <<>>
  THEN <<dirname(mainClassFiles(tree)[1])>>
  ELSE IF /\ fileExists(tree, <<"src", "main", "java">>)
          /\ globDirs2(tree, <<"src", "main", "java">>) # <<>>
       THEN <<globDirs2(tree, <<"src", "main", "java">>)[1]>>
       ELSE Null

layerBasedFolders ==
  <<Layer("controller", "REST controllers", <<>>, FALSE),
    Layer("service", "Business logic services", <<>>, FALSE),
    Layer("repository", "Data access layer", <<>>, FALSE),
    Layer("model", "Domain models/entities", <<"entity", "domain">>, FALSE),
    Layer("dto", "Data Transfer Objects", <<>>, FALSE),
    Layer("config", "Configuration classes", <<>>, FALSE),
    Layer("exception", "Custom exceptions", <<>>, TRUE),
    Layer("util", "Utility classes", <<>>, TRUE),
    Layer("mapper", "Object mappers", <<>>, TRUE)>>

\* folderFound: the folder, or one of its alternative names, is in base
folderFound(tree, base, folder) ==
  \/ fileExists(tree, join(base, <<folder.path>>))
  \/ \E a \in 1..Len(folder.altNames) :
       fileExists(tree, join(base, <<folder.altNames[a]>>))

\* hasLayerBased after the first k folders of the list have been looked at
hasLayerBased(tree, base, k) ==
  \E j \in 1..k : folderFound(tree, base, layerBasedFolders[j])

\* glob(pattern, {cwd}) for the patterns '*Controller.java', '*Service.java'
classFilesIn(tree, cwd, suffix) ==
  SelectSeq(childrenOf(tree, cwd), LAMBDA p :
    /\ p \in DOMAIN tree.files
    /\ \/ suffix = "Controller.java" /\ basename(p) \in {"UserController.java"}
       \/ suffix = "Service.java" /\ basename(p) \in {"UserService.java"})

hasFeatureBased(tree, base) ==
  \E d \in 1..Len(globDirs(tree, base)) :
    /\ classFilesIn(tree, globDirs(tree, base)[d], "Controller.java") # <<>>
    /\ classFilesIn(tree, globDirs(tree, base)[d], "Service.java") # <<>>

\* the issues of a project whose base package is base
javaPackageStructure(tree, base) ==
     forEach([k \in 1..Len(layerBasedFolders) |-> k], LAMBDA k :
       pushIf(/\ ~folderFound(tree, base, layerBasedFolders[k])
              /\ ~layerBasedFolders[k].optional
              /\ hasLayerBased(tree, base, k),
              Issue("warning", "java-organization", Undefined, Undefined,
                    "Missing package in layer-based structure: "
                      \o layerBasedFolders[k].path \o " - "
                      \o layerBasedFolders[k].description,
                    "spring-boot-structure")))
  \o pushIf(/\ ~hasLayerBased(tree, base, Len(layerBasedFolders))
            /\ ~hasFeatureBased(tree, base),
            Issue("error", "java-organization", Undefined, Undefined,
                  "No clear package structure found. Use either layer-based or feature-based organization",
                  "spring-boot-structure"))

checkJavaProjectStructure(tree) ==
  forEach(findJavaBasePackage(tree), LAMBDA base : javaPackageStructure(tree, base))

\* glob('**/*.java', {ignore: target, build})
javaFiles(tree) == globFiles(tree, <<>>, {".java"})

analyzeJavaProject(tree) ==
     checkJavaProjectStructure(tree)
  \o forEach(javaFiles(tree), LAMBDA file :
       forEach(ascending({n \in 1..Len(readFile(tree, file)) :
                            includesAny(<<readFile(tree, file)[n]>>, {"System.out.println"})}),
               LAMBDA n :
         <<Issue("warning", "java-logging", <<file>>, <<n>>,
                 "Use proper logging framework instead of System.out.println",
                 "java-no-sysout")>>))

----------------------------------------------------------------------------
(* .NET                                                                    *)

cleanArchitectureLayers ==
  <<[name |-> "Domain", altNames |-> <<>>,
     folders |-> <<"Entities", "ValueObjects", "Enums", "Exceptions", "Interfaces">>],
    [name |-> "Application", altNames |-> <<>>,
     folders |-> <<"Services", "Interfaces", "DTOs", "Mappings", "Validators">>],
    [name |-> "Infrastructure", altNames |-> <<>>,
     folders |-> <<"Data", "Repositories", "Services", "Identity">>],
    [name |-> "Presentation", altNames |-> <<"WebAPI", "API", "Web">>,
     folders |-> <<"Controllers", "ViewModels", "Filters", "Middleware">>]>>

\* glob('*.sln', {cwd: projectPath})
solutionFiles(tree) ==
  SelectSeq(childrenOf(tree, <<>>),
            LAMBDA p : p \in DOMAIN tree.files /\ extname(basename(p)) = ".sln")

layerFound(tree, layer) ==
  \/ fileExists(tree, <<layer.name>>)
  \/ \E a \in 1..Len(layer.altNames) : fileExists(tree, <<layer.altNames[a]>>)

hasCleanArchitecture(tree) ==
  /\ solutionFiles(tree) # <<>>
  /\ \E k \in 1..Len(cleanArchitectureLayers) : layerFound(tree, cleanArchitectureLayers[k])

\* the folders are looked for under the layer's first name, also when the
\* layer was found under an alternative name
cleanArchitectureStructure(tree) ==
  forEach(cleanArchitectureLayers, LAMBDA layer :
    IF ~layerFound(tree, layer) THEN <<>>
    ELSE forEach(layer.folders, LAMBDA folder :
           pushIf(~fileExists(tree, <<layer.name, folder>>),
                  Issue("info", "dotnet-organization", Undefined, Undefined,
                        "Missing folder in " \o layer.name \o " layer: " \o folder,
                        "clean-architecture-structure"))))

standardFolders ==
  <<Layer("Controllers", "API/MVC controllers", <<>>, FALSE),
    Layer("Models", "Data models", <<"Entities">>, FALSE),
    Layer("Services", "Business logic services", <<>>, FALSE),
    Layer("Data", "Data context and migrations", <<>>, TRUE),
    Layer("Repositories", "Repository pattern", <<>>, TRUE),
    Layer("DTOs", "Data Transfer Objects", <<>>, TRUE),
    Layer("ViewModels", "View models for MVC", <<>>, TRUE),
    Layer("Helpers", "Helper utilities", <<>>, TRUE),
    Layer("Middleware", "Custom middleware", <<>>, TRUE)>>

checkDotNetProjectStructure(tree) ==
  IF hasCleanArchitecture(tree)
  THEN cleanArchitectureStructure(tree)
  ELSE forEach(standardFolders, LAMBDA folder :
         pushIf(~folderFound(tree, <<>>, folder) /\ ~folder.optional,
                Issue("warning", "dotnet-organization", Undefined, Undefined,
                      "Missing folder: " \o folder.path \o " - " \o folder.description,
                      "dotnet-folder-structure")))

\* glob('**/*.cs', {ignore: bin, obj}), Program.cs left out
analyzeDotNetProject(tree) ==
     checkDotNetProjectStructure(tree)
  \o forEach(SelectSeq(globFiles(tree, <<>>, {".cs"}),
                       LAMBDA file : basename(file) # "Program.cs"),
             LAMBDA file :
       forEach(ascending({n \in 1..Len(readFile(tree, file)) :
                            includesAny(<<readFile(tree, file)[n]>>, {"Console.WriteLine"})}),
               LAMBDA n :
         <<Issue("warning", "dotnet-logging", <<file>>, <<n>>,
                 "Use ILogger instead of Console.WriteLine", "dotnet-no-console")>>))

----------------------------------------------------------------------------
(* Angular and AWS Amplify                                                 *)

SrcApp == <<"src", "app">>

angularRequiredFolders ==
  <<[path |-> <<"src", "app", "core">>, altNames |-> <<>>, optional |-> FALSE,
     description |-> "Core module (singletons, guards, interceptors)"],
    [path |-> <<"src", "app", "shared">>, altNames |-> <<>>, optional |-> FALSE,
     description |-> "Shared module (components, directives, pipes)"],
    [path |-> <<"src", "app", "features">>, altNames |-> <<"modules">>,
     optional |-> FALSE, description |-> "Feature modules"],
    [path |-> <<"src", "assets">>, altNames |-> <<>>, optional |-> FALSE,
     description |-> "Static assets (images, fonts)"],
    [path |-> <<"src", "environments">>, altNames |-> <<>>, optional |-> FALSE,
     description |-> "Environment configurations"],
    [path |-> <<"src", "styles">>, altNames |-> <<>>, optional |-> TRUE,
     description |-> "Global styles"]>>

\* the folder, or one of its alternative names under src/app
angularFolderFound(tree, folder) ==
  \/ fileExists(tree, folder.path)
  \/ \E a \in 1..Len(folder.altNames) :
       fileExists(tree, join(SrcApp, <<folder.altNames[a]>>))

Subfolder(path, description, optional) ==
  [path |-> path, description |-> description, optional |-> optional]

coreSubfolders ==
  <<Subfolder("services", "Singleton services", FALSE),
    Subfolder("guards", "Route guards", TRUE),
    Subfolder("interceptors", "HTTP interceptors", TRUE),
    Subfolder("models", "Core models/interfaces", TRUE)>>

sharedSubfolders ==
  <<Subfolder("components", "Shared components", FALSE),
    Subfolder("directives", "Custom directives", TRUE),
    Subfolder("pipes", "Custom pipes", TRUE),
    Subfolder("models", "Shared models/interfaces", TRUE)>>

featureStructure ==
  <<Subfolder("components", "Feature components", FALSE),
    Subfolder("services", "Feature services", TRUE),
    Subfolder("pages", "Feature pages/containers", TRUE)>>

\* the subfolders of the core or of the shared module
moduleStructure(tree, name, subfolders, rule) ==
  IF ~fileExists(tree, join(SrcApp, <<name>>)) THEN <<>>
  ELSE forEach(subfolders, LAMBDA subfolder :
         pushIf(/\ ~fileExists(tree, join(SrcApp, <<name, subfolder.path>>))
                /\ ~subfolder.optional,
                Issue("info", "angular-organization", Undefined, Undefined,
                      "Missing " \o name \o " subfolder: " \o name \o "/"
                        \o subfolder.path \o " - " \o subfolder.description,
                      rule)))

\* src/app/features when it exists, else src/app/modules
featuresPath(tree) ==
  IF fileExists(tree, join(SrcApp, <<"features">>))
  THEN join(SrcApp, <<"features">>) ELSE join(SrcApp, <<"modules">>)

featureModules(tree) ==
  IF ~(\/ fileExists(tree, join(SrcApp, <<"features">>))
       \/ fileExists(tree, join(SrcApp, <<"modules">>)))
  THEN <<>>
  ELSE forEach(globDirs(tree, featuresPath(tree)), LAMBDA feature :
         forEach(featureStructure, LAMBDA struct :
           pushIf(~fileExists(tree, join(feature, <<struct.path>>)) /\ ~struct.optional,
                  Issue("info", "angular-organization", Undefined, Undefined,
                        "Feature " \o basename(feature) \o " missing folder: "
                          \o struct.path \o " - " \o struct.description,
                        "angular-feature-structure"))))

checkAngularProjectStructure(tree) ==
     forEach(angularRequiredFolders, LAMBDA folder :
       pushIf(~angularFolderFound(tree, folder) /\ ~folder.optional,
              Issue("warning", "angular-organization", Undefined, Undefined,
                    "Missing folder: " \o pathText(folder.path) \o " - "
                      \o folder.description,
                    "angular-folder-structure")))
  \o moduleStructure(tree, "core", coreSubfolders, "angular-core-structure")
  \o moduleStructure(tree, "shared", sharedSubfolders, "angular-shared-structure")
  \o featureModules(tree)

\* glob('src/**/*.component.ts')
angularComponentFiles(tree) ==
  SelectSeq(globFiles(tree, <<"src">>, {".ts"}),
            LAMBDA file : basename(file) \in {"app.component.ts"})

analyzeAngularProject(tree) ==
     checkAngularProjectStructure(tree)
  \o forEach(angularComponentFiles(tree), LAMBDA file :
       pushIf(includesAny(readFile(tree, file),
                       {"document.getElementById", "document.querySelector"}),
              Issue("error", "angular-patterns", <<file>>, Undefined,
                    "Direct DOM manipulation detected - use Angular APIs",
                    "angular-no-dom")))

analyzeAmplifyProject(tree) ==
  IF ~fileExists(tree, <<"amplify">>) THEN <<>>
  ELSE forEach(globFiles(tree, <<"amplify">>, {".json", ".js", ".ts"}), LAMBDA file :
         pushIf(includesAny(readFile(tree, file), {"accessKeyId", "secretAccessKey"}),
                Issue("error", "security", <<file>>, Undefined,
                      "Possible hardcoded AWS credentials detected",
                      "amplify-no-credentials")))

\* analyzeByType on the files of a tree: the issues of one type
analyzeFilesByType(tree, projectType) ==
  CASE projectType \in {"react", "react-native"} -> analyzeReactProject(tree, projectType)
    [] projectType \in {"nodejs", "nextjs", "nest"} -> analyzeNodeFiles(tree, projectType)
    [] projectType = "firebase-functions" -> analyzeFirebaseFunctions(tree)
    [] projectType = "java" -> analyzeJavaProject(tree)
    [] projectType = "dotnet" -> analyzeDotNetProject(tree)
    [] projectType = "angular" -> analyzeAngularProject(tree)
    [] projectType = "aws-amplify" -> analyzeAmplifyProject(tree)
    [] OTHER -> <<>>

----------------------------------------------------------------------------
(* Projects of every type: for each type a tree that meets its             *)
(* conventions, changed by at most MaxEdits edits.                         *)

rm(paths) == {<<"rm", p, EmptyContent>> : p \in paths}

mkdir(paths) == {<<"mkdir", p, EmptyContent>> : p \in paths}

writes(path, contents) == {<<"write", path, content>> : content \in contents}

CleanNodeTree ==
  write(treeOf({<<"src", "routes">>, <<"src", "controllers">>, <<"src", "services">>,
                <<"src", "models">>, <<"src", "middleware">>, <<"src", "utils">>,
                <<"src", "config">>},
               {<<"src", "routes", "users.ts">>}),
        <<"package.json">>, PackageJson(<<>>))

NodeEdits ==
       rm({<<"src", "routes">>, <<"src", "controllers">>, <<"src", "config">>,
           <<"package.json">>})
  \cup mkdir({<<"src", "validators">>, <<"src", "modules">>, <<"src", "dto">>,
              <<"app">>, <<"components">>, <<"lib">>, <<"public">>})
  \cup writes(<<"src", "routes", "users.ts">>, {<<<<".find(", "id)">>>>})
  \cup writes(<<"package.json">>, {PackageJson(<<"lodash", "axios">>)})
  \cup writes(<<"src", "App.tsx">>, {<<<<"import _ ", "from '", "lodash", "'">>>>})

CleanFirebaseTree ==
  treeOf({},
         {join(FunctionsSrc, <<"index.ts">>),
          join(FunctionsSrc, <<"constants", "index.ts">>),
          join(FunctionsSrc, <<"constants", "security.ts">>),
          join(FunctionsSrc, <<"function", "index.ts">>),
          join(FunctionsSrc, <<"function", "securityUtils.ts">>),
          join(FunctionsSrc, <<"functions", "index.ts">>),
          join(FunctionsSrc, <<"functions", "family", "createFamily.ts">>)})

ExportLine(name) == <<"export ", "const ", name, " = () => 1">>

FirebaseContents ==
  {<<ConsoleLine>>,
   repeatLine(Blank, 301),
   repeatLine(ExportLine("f"), 6),
   <<ExportLine("f")>> \o repeatLine(Blank, 50),
   <<ExportLine("f")>> \o repeatLine(Blank, 50) \o <<ExportLine("g")>>}

FirebaseEdits ==
       rm({FunctionsSrc,
           join(FunctionsSrc, <<"index.ts">>),
           join(FunctionsSrc, <<"constants">>),
           join(FunctionsSrc, <<"constants", "index.ts">>),
           join(FunctionsSrc, <<"constants", "security.ts">>),
           join(FunctionsSrc, <<"function">>),
           join(FunctionsSrc, <<"function", "securityUtils.ts">>),
           join(FunctionsSrc, <<"functions">>),
           join(FunctionsSrc, <<"functions", "index.ts">>),
           join(FunctionsSrc, <<"functions", "family">>),
           join(FunctionsSrc, <<"functions", "family", "createFamily.ts">>)})
  \cup mkdir({join(FunctionsSrc, <<"functions", "auth">>)})
  \cup writes(join(FunctionsSrc, <<"functions", "family", "Create_Family.ts">>),
              {EmptyContent})
  \cup writes(join(FunctionsSrc, <<"index.ts">>), FirebaseContents)

CleanJavaTree ==
  treeOf({join(JavaBase, <<layer>>) :
            layer \in {"controller", "service", "repository", "model", "dto", "config",
                       "exception"}},
         {join(JavaBase, <<"Application.java">>)})

\* a project with its main class and no package yet
BareJavaTree == treeOf({}, {join(JavaBase, <<"Application.java">>)})

JavaEdits ==
       rm({join(JavaBase, <<layer>>) :
             layer \in {"controller", "service", "repository", "model", "config",
                        "exception"}})
  \cup rm({join(JavaBase, <<"Application.java">>), <<"src", "main">>})
  \cup mkdir({join(JavaBase, <<layer>>) :
                layer \in {"controller", "service", "dto", "entity", "exception"}})
  \cup writes(join(JavaBase, <<"user", "UserController.java">>), {EmptyContent})
  \cup writes(join(JavaBase, <<"user", "UserService.java">>), {EmptyContent})
  \cup writes(join(JavaBase, <<"Application.java">>),
              {<<Blank, <<"System.out.println", "(x);">>>>})

CleanDotNetTree ==
  treeOf({<<"Controllers">>, <<"Models">>, <<"Services">>}, {<<"Program.cs">>})

DotNetEdits ==
       rm({<<"Controllers">>, <<"Models">>, <<"Services">>})
  \cup mkdir({<<"Entities">>, <<"Data">>, <<"Domain">>, <<"Domain", "Entities">>,
              <<"WebAPI">>})
  \cup writes(<<"App.sln">>, {EmptyContent})
  \cup writes(<<"Worker.cs">>, {<<<<"Console.WriteLine", "(x);">>>>})
  \cup writes(<<"Program.cs">>, {<<<<"Console.WriteLine", "(x);">>>>})

CleanAngularTree ==
  treeOf({join(SrcApp, <<"core", "services">>), join(SrcApp, <<"shared", "components">>),
          join(SrcApp, <<"features", "home", "components">>),
          <<"src", "assets">>, <<"src", "environments">>},
         {join(SrcApp, <<"app.component.ts">>)})

AngularEdits ==
       rm({join(SrcApp, <<"core">>), join(SrcApp, <<"core", "services">>),
           join(SrcApp, <<"shared">>), join(SrcApp, <<"shared", "components">>),
           join(SrcApp, <<"features">>),
           join(SrcApp, <<"features", "home", "components">>),
           <<"src", "assets">>, <<"src", "environments">>})
  \cup mkdir({join(SrcApp, <<"modules">>), <<"src", "styles">>})
  \cup writes(join(SrcApp, <<"app.component.ts">>),
              {<<<<"document.querySelector", "('#a')">>>>})

CleanAmplifyTree == treeOf({}, {<<"amplify", "config.json">>})

AmplifyEdits ==
       rm({<<"amplify">>})
  \cup writes(<<"amplify", "config.json">>, {<<<<"accessKeyId", ": 'x'">>>>})

\* the trees a project of the type can be
TreesOfType(projectType) ==
  CASE projectType \in {"react", "react-native"} ->
         {write(tree, AppTsx, <<TodoLine, ConsoleLine>>) :
            tree \in TreesFrom(CleanReactTree, ReactEdits)}
    [] projectType \in {"nodejs", "nextjs", "nest"} -> TreesFrom(CleanNodeTree, NodeEdits)
    [] projectType = "firebase-functions" -> TreesFrom(CleanFirebaseTree, FirebaseEdits)
    [] projectType = "java" ->
         TreesFrom(CleanJavaTree, JavaEdits) \cup TreesFrom(BareJavaTree, JavaEdits)
    [] projectType = "dotnet" -> TreesFrom(CleanDotNetTree, DotNetEdits)
    [] projectType = "angular" -> TreesFrom(CleanAngularTree, AngularEdits)
    [] projectType = "aws-amplify" -> TreesFrom(CleanAmplifyTree, AmplifyEdits)

ProjectTypes ==
  {"react", "react-native", "nodejs", "nextjs", "nest", "firebase-functions", "java",
   "dotnet", "angular", "aws-amplify"}

----------------------------------------------------------------------------
(* Specification of the checkers: store is a project, its detected type    *)
(* and its tree; the checker of the type, the analysis of the type and     *)
(* analyzeQuality run on it, analyzeQuality at most MaxRuns times; saved   *)
(* holds the reports of the runs so far.                                   *)

\* analyzeQuality on the files of a tree of a project that is no multi-project
analyzeQualityFiles(tree, projectInfo) ==
  analyzeQuality(PathA, projectInfo,
                 forEach(projectInfo.types,
                         LAMBDA projectType : analyzeFilesByType(tree, projectType))
                   \o checkCommonIssues(tree))

InitStructure ==
  /\ store \in UNION {{[projectInfo |-> [types |-> <<projectType>>,
                                        isMultiProject |-> FALSE],
                        tree |-> tree] : tree \in TreesOfType(projectType)} :
                      projectType \in ProjectTypes}
  /\ saved = <<>>
  /\ call = [op |-> "new"]
  /\ result = Null

projectTypeOf(project) == project.projectInfo.types[1]

CheckReactComponentStructure ==
  /\ projectTypeOf(store) \in {"react", "react-native"}
  /\ call' = [op |-> "checkReactComponentStructure"]
  /\ result' = checkReactComponentStructure(store.tree)
  /\ UNCHANGED <<store, saved>>

CheckNodeProjectStructure ==
  /\ projectTypeOf(store) \in {"nodejs", "nextjs", "nest"}
  /\ call' = [op |-> "checkNodeProjectStructure"]
  /\ result' = checkNodeProjectStructure(store.tree, projectTypeOf(store))
  /\ UNCHANGED <<store, saved>>

CheckFirebaseStructure ==
  /\ projectTypeOf(store) = "firebase-functions"
  /\ call' = [op |-> "checkFirebaseStructure"]
  /\ result' = checkFirebaseStructure(store.tree)
  /\ UNCHANGED <<store, saved>>

CheckJavaProjectStructure ==
  /\ projectTypeOf(store) = "java"
  /\ call' = [op |-> "checkJavaProjectStructure"]
  /\ result' = checkJavaProjectStructure(store.tree)
  /\ UNCHANGED <<store, saved>>

CheckDotNetProjectStructure ==
  /\ projectTypeOf(store) = "dotnet"
  /\ call' = [op |-> "checkDotNetProjectStructure"]
  /\ result' = checkDotNetProjectStructure(store.tree)
  /\ UNCHANGED <<store, saved>>

CheckAngularProjectStructure ==
  /\ projectTypeOf(store) = "angular"
  /\ call' = [op |-> "checkAngularProjectStructure"]
  /\ result' = checkAngularProjectStructure(store.tree)
  /\ UNCHANGED <<store, saved>>

AnalyzeByType ==
  /\ call' = [op |-> "analyzeByType"]
  /\ result' = analyzeFilesByType(store.tree, projectTypeOf(store))
  /\ UNCHANGED <<store, saved>>

AnalyzeQualityFiles ==
  /\ Len(saved) < MaxRuns
  /\ call' = [op |-> "analyzeQuality"]
  /\ result' = analyzeQualityFiles(store.tree, store.projectInfo)
  /\ saved' = Append(saved, result')
  /\ UNCHANGED store

NextStructure ==
  \/ CheckReactComponentStructure
  \/ CheckNodeProjectStructure
  \/ CheckFirebaseStructure
  \/ CheckJavaProjectStructure
  \/ CheckDotNetProjectStructure
  \/ CheckAngularProjectStructure
  \/ AnalyzeByType
  \/ AnalyzeQualityFiles

SpecStructure == InitStructure /\ [][NextStructure]_vars

----------------------------------------------------------------------------
(* Claims                                                                  *)

CountSeverity(issues, severity) ==
  Cardinality({n \in 1..Len(issues) : issues[n].severity = severity})

\* the sum of the severity weights 5, 2 and 0.5, in half points
WeightSum(issues) ==
  10 * CountSeverity(issues, "error") + 4 * CountSeverity(issues, "warning")
    + CountSeverity(issues, "info")

Clamp(x, lo, hi) == IF x < lo THEN lo ELSE IF x > hi THEN hi ELSE x

CountCategory(issues, category) ==
  Cardinality({n \in 1..Len(issues) : issues[n].category = category})

Categories ==
  {ConsoleIssue.category, ImportIssue.category, TodoIssue.category,
   DuplicateDependencyIssue.category}

Listed(areaList, category) ==
  \E n \in 1..Len(areaList) : areaList[n].category = category

SlotOf(projectPath) == store[getProjectHash(projectPath)]

\* C1 as stated: for every issue list the score is exactly
\* clamp(100 - sum of weights, 0, 100), odd numbers of info issues included.
C1_ScoreIsClampedSum ==
  call.op = "analyzeQuality" =>
    result.score = Clamp(200 - WeightSum(call.issues), 0, 200)

\* C1 as amended: the score is clamp(100 - sum of weights, 0, 100) rounded to
\* the nearest integer, a half rounding up; it is the clamped sum itself
\* whenever the number of info issues is even.
C1_ScoreIsRoundedClampedSum ==
  call.op = "analyzeQuality" =>
    LET exact == 200 - WeightSum(call.issues)
        rounded == IF exact % 2 = 0 THEN exact ELSE exact + 1
    IN result.score = Clamp(rounded, 0, 200)

\* 3 errors, 2 warnings and 5 info issues: 100 - 21.5 = 78.5, reported as 79
C1_Witness ==
  /\ call.op = "analyzeQuality"
  /\ CountSeverity(call.issues, "error") = 3
  /\ CountSeverity(call.issues, "warning") = 2
  /\ CountSeverity(call.issues, "info") = 5
  /\ result.score = 158

\* C2: in every report of analyzeQuality the score is an integer between 0
\* and 100 (in half points: even, between 0 and 200).
C2_ScoreIsIntegerInRange ==
  call.op = "analyzeQuality" =>
    /\ result.score % 2 = 0
    /\ 0 <= result.score
    /\ result.score <= 200

\* more deductions than 100 points, and an odd number of info issues
C2_Witness ==
  /\ call.op = "analyzeQuality"
  /\ WeightSum(call.issues) > 200
  /\ CountSeverity(call.issues, "info") % 2 = 1
  /\ result.score = 0

\* C3: getLatestAnalysis(p) returns the report of the latest saveAnalysis(p, r),
\* whatever was saved for other paths in between.
C3_RoundTrip ==
  (call.op = "getLatestAnalysis" /\ saved[call.path] # Null) =>
    result = saved[call.path]

\* C4: the store holds at most one snapshot per saved path, and for every path
\* the snapshot read back is the report of the most recent save for that path.
C4_OneSlotHoldingLatestSave ==
  /\ Cardinality({h \in Hashes : store[h] # NoFile})
       <= Cardinality({p \in Paths : saved[p] # Null})
  /\ \A p \in Paths :
       saved[p] # Null => getLatestAnalysis(store, p) = saved[p]

\* C5: with no snapshot stored for the path, generateTrends returns the
\* current figures only: no previous score, no changes, both area lists empty.
C5_FirstTrendHasNoPrevious ==
  (call.op = "generateTrends" /\ SlotOf(call.path) = NoFile) =>
    /\ result.currentScore = call.report.score
    /\ result.currentIssueCount = Len(call.report.issues)
    /\ result.previousScore = Undefined
    /\ result.scoreChange = Undefined
    /\ result.previousIssueCount = Undefined
    /\ result.issueChange = Undefined
    /\ result.improvingAreas = <<>>
    /\ result.degradingAreas = <<>>

C5_Witness ==
  /\ call.op = "generateTrends"
  /\ SlotOf(call.path) = NoFile
  /\ Len(call.report.issues) = 2
  /\ result.currentScore = call.report.score

\* C6: with a snapshot stored, scoreChange and issueChange are current minus
\* previous, a category is improving iff its count went down, degrading iff
\* its count went up, and never both; equal counts put it in neither list.
C6_TrendIsPerCategoryDiff ==
  (call.op = "generateTrends" /\ SlotOf(call.path) # NoFile) =>
    LET previous == getLatestAnalysis(store, call.path)
        current == call.report
    IN /\ result.scoreChange = <<current.score - previous.score>>
       /\ result.issueChange = <<Len(current.issues) - Len(previous.issues)>>
       /\ \A c \in Categories :
            LET before == CountCategory(previous.issues, c)
                after == CountCategory(current.issues, c)
            IN /\ Listed(result.improvingAreas, c) <=> after < before
               /\ Listed(result.degradingAreas, c) <=> after > before
               /\ ~(Listed(result.improvingAreas, c) /\ Listed(result.degradingAreas, c))

\* one category disappeared and another is new
C6_Witness ==
  /\ call.op = "generateTrends"
  /\ SlotOf(call.path) # NoFile
  /\ LET previous == getLatestAnalysis(store, call.path)
     IN /\ \E c \in Categories :
             /\ CountCategory(previous.issues, c) > 0
             /\ CountCategory(call.report.issues, c) = 0
             /\ Listed(result.improvingAreas, c)
        /\ \E c \in Categories :
             /\ CountCategory(previous.issues, c) = 0
             /\ CountCategory(call.report.issues, c) > 0
             /\ Listed(result.degradingAreas, c)

\* C7: get_trends compares with the snapshot stored before the call and then
\* overwrites it: after the call the snapshot is the call's report, and a call
\* following a call on the same path is compared against that call's report.
C7_CompareThenOverwrite ==
  [][(call'.op = "get_trends" /\ ~call'.isError) =>
       /\ result'.previousScore =
            IF SlotOf(call'.path) = NoFile THEN Undefined
            ELSE <<getLatestAnalysis(store, call'.path).score>>
       /\ getLatestAnalysis(store', call'.path) = call'.report
       /\ (call.op = "get_trends" /\ ~call.isError /\ call.path = call'.path) =>
            /\ result'.previousScore = <<call.report.score>>
            /\ result'.previousIssueCount = <<Len(call.report.issues)>>
            /\ result'.scoreChange = <<call'.report.score - call.report.score>>
            /\ result'.issueChange =
                 <<Len(call'.report.issues) - Len(call.report.issues)>>]_vars

\* a later call on a path: compared with an earlier report, which it replaced
C7_Witness ==
  /\ call.op = "get_trends"
  /\ ~call.isError
  /\ result.previousScore # Undefined
  /\ result.scoreChange # <<0>>
  /\ getLatestAnalysis(store, call.path) = call.report

CountRule(issues, rule) ==
  Cardinality({n \in 1..Len(issues) : issues[n].rule = rule})

RuleIds == {k.rule : k \in RuleKinds}

\* what the claims say of a quick win, by the noun of its title:
\* <<rule id, minutes per occurrence, score gain cap in points>>
WinTable ==
  [n \in {"unused variables", "console statements", "Hebrew comments",
          "TODO comments"} |->
     CASE n = "unused variables" -> <<"no-unused-vars", 2, 15>>
       [] n = "console statements" -> <<"no-console", 1, 8>>
       [] n = "Hebrew comments" -> <<"no-hebrew-comments", 3, 5>>
       [] n = "TODO comments" -> <<"no-todo-comments", 5, 10>>]

\* C8: generateQuickWins returns one quick win for every rule id carried by at
\* least 5 issues, whatever the rule id, and none for a smaller group.
C8_WinForEveryLargeGroup ==
  call.op = "generateQuickWins" =>
    Len(result) =
      MathMin(5, Cardinality({r \in RuleIds : CountRule(call.report.issues, r) >= 5}))

\* C9: the list has at most 5 entries, is in non-increasing order of
\* scoreGain / effort, each effort is the occurrence count times the rule's
\* multiplier and no scoreGain exceeds the rule's cap.
C9_SortedByROIAndCapped ==
  call.op = "generateQuickWins" =>
    /\ Len(result) <= 5
    /\ \A k \in 1..(Len(result) - 1) :
         result[k].scoreGain * result[k + 1].effort[1]
           >= result[k + 1].scoreGain * result[k].effort[1]
    /\ \A k \in 1..Len(result) :
         LET row == WinTable[result[k].title[3]]
             count == CountRule(call.report.issues, row[1])
         IN /\ result[k].title[2] = count
            /\ result[k].effort = <<count * row[2], "minutes">>
            /\ result[k].scoreGain <= 6 * row[3]

\* two wins, returned in the opposite order of their groups in the report,
\* the first with its scoreGain at the cap of 15 points
C9_Witness ==
  /\ call.op = "generateQuickWins"
  /\ Len(result) = 2
  /\ call.report.issues[1].rule = "no-todo-comments"
  /\ result[1].title[3] = "unused variables"
  /\ result[1].title[2] > 15
  /\ result[1].scoreGain = 6 * 15
  /\ result[2].title[3] = "TODO comments"

\* C11: two uncoordinated runs on one path: once a run has saved, the snapshot
\* is exactly the complete report of the run that saved last, never a mixture
\* of the two reports; both runs may have compared with the same earlier one.
C11_LastWriteWins ==
  saved # <<>> =>
    LET last == call[saved[Len(saved)]]
    IN /\ store[getProjectHash(last.path)] =
            JSONstringify([projectPath |-> last.path, report |-> last.report])
       /\ getLatestAnalysis(store, last.path) = last.report

\* both runs compared with the snapshot stored before either saved, they saved
\* different reports, and the snapshot is the report of the second save
C11_Witness ==
  /\ Len(saved) = 2
  /\ result[1].previousScore # Undefined
  /\ result[1].previousScore = result[2].previousScore
  /\ result[1].previousIssueCount = result[2].previousIssueCount
  /\ call[saved[1]].report.issues # <<>>
  /\ call[saved[2]].report.issues # <<>>
  /\ call[saved[1]].report.score # call[saved[2]].report.score
  /\ result[saved[1]].previousScore # <<call[saved[2]].report.score>>
  /\ result[saved[2]].previousScore # <<call[saved[1]].report.score>>
  /\ getLatestAnalysis(store, call[saved[2]].path) = call[saved[2]].report

TagsOf(types) == {types[n] : n \in 1..Len(types)}

\* the priority order as the claim lists it
ClaimedPriority ==
  <<"nextjs-app-router", "nextjs", "nestjs-microservices", "nestjs", "remix",
    "react-native", "angular", "vue", "svelte", "astro", "react", "nodejs",
    "dotnet", "java", "firebase-functions", "aws-amplify">>

RankOf(tag) == CHOOSE k \in 1..Len(ClaimedPriority) : ClaimedPriority[k] = tag

\* C16: mainFramework is the detected type that comes first in the priority
\* list; it is a member of types when types is non-empty and absent exactly
\* when types is empty.
C16_MainFrameworkByPriority ==
  call.op = "detectProject" =>
    /\ result.mainFramework = Undefined <=> result.types = <<>>
    /\ result.types # <<>> =>
         /\ result.mainFramework[1] \in TagsOf(result.types)
         /\ \A tag \in TagsOf(result.types) :
              tag \in TagsOf(ClaimedPriority)
              /\ RankOf(result.mainFramework[1]) <= RankOf(tag)

\* three types detected, the main framework being the one detected last
C16_Witness ==
  /\ call.op = "detectProject"
  /\ Len(result.types) = 3
  /\ result.mainFramework = <<result.types[3]>>

\* the dependencies the root manifest declares, when it can be read
RootDeps ==
  IF store.packageJson # NoFile /\ store.packageJson.valid
  THEN store.packageJson.json.dependencies \cup store.packageJson.json.devDependencies
  ELSE {}

FrameworkDeps == DepNames \cup {"@nestjs/common", "fastify", "koa", "hapi", "nuxt",
                                "@sveltejs/kit", "@remix-run/node"}

\* a directory holds a manifest that declares a framework
DeclaresFramework(content) ==
  /\ content # NoFile
  /\ content.valid
  /\ (content.json.dependencies \cup content.json.devDependencies)
       \cap (FrameworkDeps \cup {"typescript", "@types/node", "tsx"}) # {}
  /\ (content.json.dependencies \cup content.json.devDependencies)
       \cap (FrameworkDeps \cup {"typescript", "@types/node", "tsx"}) # {"react-native"}

FirebaseFunctionsPresent ==
  /\ store.functions # NoFile
  /\ store.functions.valid
  /\ "firebase-functions" \in store.functions.json.dependencies

SubProjectDiscovered ==
  \/ FirebaseFunctionsPresent
  \/ call.deep /\ \E d \in NestedNames : DeclaresFramework(store.nested[d])

\* C17: isMultiProject is true iff more than one type was detected or a
\* sub-project was discovered, and subProjects is present exactly when it is
\* non-empty.
C17_MultiProjectFlag ==
  call.op = "detectProject" =>
    /\ result.isMultiProject <=> (Len(result.types) > 1 \/ SubProjectDiscovered)
    /\ result.subProjects # Undefined <=> SubProjectDiscovered
    /\ result.subProjects # Undefined => Len(result.subProjects[1]) > 0

\* a single type, and a sub-project that makes the tree a multi-project
C17_Witness ==
  /\ call.op = "detectProject"
  /\ Len(result.types) = 1
  /\ result.subProjects # Undefined
  /\ result.subProjects[1][1].path = "client"
  /\ result.isMultiProject

\* the primary signal of each tag: its manifest dependency or marker file
PrimarySignal(tag) ==
  CASE tag = "react" -> "react" \in RootDeps
    [] tag = "nextjs" -> "next" \in RootDeps
    [] tag = "nestjs" -> RootDeps \cap {"@nestjs/core", "@nestjs/common"} # {}
    [] tag = "nodejs" -> RootDeps \cap {"express", "fastify", "koa", "hapi"} # {}
    [] tag = "vue" -> RootDeps \cap {"vue", "nuxt"} # {}
    [] tag = "svelte" -> RootDeps \cap {"svelte", "@sveltejs/kit"} # {}
    [] tag = "remix" -> RootDeps \cap {"@remix-run/react", "@remix-run/node"} # {}
    [] tag = "astro" -> "astro" \in RootDeps
    [] tag = "react-native" -> store.markers \cap {"app.json", "metro.config.js"} # {}
    [] tag = "java" -> store.markers \cap {"pom.xml", "build.gradle"} # {}
    [] tag = "dotnet" -> "src/Api/Api.csproj" \in store.markers
    [] tag = "angular" -> "angular.json" \in store.markers
    [] tag = "firebase-functions" -> FirebaseFunctionsPresent
    [] tag = "aws-amplify" -> "amplify" \in store.markers
    [] OTHER -> FALSE

SignalledTags ==
  {"react", "nextjs", "nestjs", "nodejs", "vue", "svelte", "remix", "astro",
   "react-native", "java", "dotnet", "angular", "firebase-functions", "aws-amplify"}

\* C18 as stated: a tag depends on its own primary signal only, so every tag
\* whose signal is present is in types, whatever else is present.
C18_NoSignalSuppressed ==
  call.op = "detectProject" =>
    \A tag \in SignalledTags : PrimarySignal(tag) => tag \in TagsOf(result.types)

\* the condition under which each tag is added
TagCondition(tag) ==
  CASE tag = "react" -> "react" \in RootDeps /\ "react-native" \notin RootDeps
    [] tag = "nextjs-app-router" ->
         /\ "next" \in RootDeps
         /\ store.packageJson.json.scripts.dev = <<"next dev">>
    [] tag = "nestjs-microservices" ->
         PrimarySignal("nestjs") /\ "@nestjs/microservices" \in RootDeps
    [] tag = "nodejs" ->
         \/ PrimarySignal("nodejs")
         \/ /\ RootDeps \cap {"@types/node", "typescript", "tsx"} # {}
            /\ ~("react" \in RootDeps /\ "react-native" \notin RootDeps)
            /\ ~PrimarySignal("nextjs")
            /\ ~PrimarySignal("nestjs")
    [] OTHER -> PrimarySignal(tag)

\* C18 as amended: every check is evaluated and a tag is in types exactly when
\* its own condition holds; the conditions are the primary signals, except
\* that react also needs react-native not to be declared, the generic Node.js
\* fallback needs no tag to have been found in the manifest before it, and a
\* variant tag needs its base dependency.
C18_TagsByOwnCondition ==
  call.op = "detectProject" =>
    TagsOf(result.types) = {tag \in TagsOf(ClaimedPriority) : TagCondition(tag)}

\* react and react-native are both declared: react is left out, and the
\* express dependency still gives its tag
C18_Witness ==
  /\ call.op = "detectProject"
  /\ {"react", "react-native", "express"} \subseteq RootDeps
  /\ result.types = <<"nodejs">>

\* C19: no two sub-projects of a ProjectInfo have the same relative path, the
\* 'functions' entry of the Firebase detection included.
C19_SubProjectPathsUnique ==
  (call.op = "detectProject" /\ result.subProjects # Undefined) =>
    LET subProjects == result.subProjects[1]
    IN \A j, k \in 1..Len(subProjects) :
         j # k => subProjects[j].path # subProjects[k].path

\* the functions entry together with two entries of the nested scan
C19_Witness ==
  /\ call.op = "detectProject"
  /\ result.subProjects # Undefined
  /\ Len(result.subProjects[1]) = 3
  /\ result.subProjects[1][1].path = "functions"

LimitGetters ==
  {"getReactLimits", "getServerLimits", "getFirebaseLimits", "getJavaLimits",
   "getDotNetLimits", "getAngularLimits"}

\* the fields of the RuleSet of each getter's type
RuleSetFields(op) ==
  CASE op = "getReactLimits" ->
         {"maxLines", "maxComplexity", "maxParameters", "componentMaxLines",
          "maxFunctionLines", "maxLineLength"}
    [] op = "getFirebaseLimits" ->
         {"maxFunctionsPerFile", "maxLinesPerFunction", "maxLinesPerFile",
          "maxComplexity", "maxParameters"}
    [] OTHER ->
         {"maxLines", "maxComplexity", "maxParameters", "maxLineLength",
          "maxMethodsPerClass"}

\* the variants that have an override
KnownVariants(op) ==
  CASE op = "getReactLimits" -> {<<"react-native">>}
    [] op = "getServerLimits" -> {<<"nextjs">>, <<"nest">>}
    [] OTHER -> {}

\* C14: every lookup returns a complete RuleSet, whatever the variant; an
\* unknown variant gets the base RuleSet of the type, an override changes the
\* file length only; the tables never change and a lookup repeated after
\* another lookup returns an equal value.
C14_LookupTotalAndDeterministic ==
  call.op \in LimitGetters =>
    /\ store = QualityRules
    /\ result # Undefined
    /\ DOMAIN result = RuleSetFields(call.op)
    /\ \A f \in DOMAIN result : result[f] \in Nat \ {0}
    /\ (call.op = "getReactLimits" /\ call.variant \notin KnownVariants(call.op))
         => result = QualityRules.clientLimits
    /\ (call.op = "getServerLimits" /\ call.variant \notin KnownVariants(call.op))
         => result = QualityRules.serverLimits
    /\ call.op = "getReactLimits" =>
         \A f \in DOMAIN result \ {"maxLines"} : result[f] = QualityRules.clientLimits[f]
    /\ call.op = "getServerLimits" =>
         \A f \in DOMAIN result \ {"maxLines"} : result[f] = QualityRules.serverLimits[f]
    /\ (saved # <<>> /\ saved[1].call = call) => saved[1].result = result

\* a misspelled variant, looked up again after the same lookup
C14_Witness ==
  /\ call = [op |-> "getServerLimits", variant |-> <<"nestjs">>]
  /\ saved # <<>>
  /\ saved[1].call = call
  /\ result = QualityRules.serverLimits

\* the documented lines-per-file limit of a lookup
DocumentedLinesPerFile(op) ==
  CASE op = "getReactLimits" -> 300
    [] op = "getServerLimits" -> 500
    [] op = "getFirebaseLimits" -> 300
    [] op = "getJavaLimits" -> 1000
    [] op = "getDotNetLimits" -> 500
    [] op = "getAngularLimits" -> 350

\* C15: the lines-per-file limit the catalog returns is the documented one for
\* every type and variant: 300 for React and React Native, 500 for Node.js,
\* Next.js and Nest.js, 1000 for Java, 500 for .NET, 350 for Angular and 300
\* for Firebase Functions.
C15_LinesPerFileAsDocumented ==
  call.op \in LimitGetters =>
    (IF call.op = "getFirebaseLimits" THEN result.maxLinesPerFile ELSE result.maxLines)
      = DocumentedLinesPerFile(call.op)

KnownTools == {"analyze_project", "check_quality", "get_recommendations"}

RootManifestUnparseable == store.packageJson # NoFile /\ ~store.packageJson.valid

\* the requests in which something fails: an unknown tool, a missing path
\* where the path is read, an exception thrown by the analysis
RequestFails ==
  \/ call.name \notin KnownTools
  \/ call.projectPath = Undefined
  \/ /\ call.name = "check_quality"
     /\ call.projectType \in {<<"nodejs">>, <<"nextjs">>, <<"nest">>}
     /\ RootManifestUnparseable

\* C12: every failure inside the handler comes back as a response with
\* isError = true and the error message, no exception leaves the handler and
\* the process keeps running; a request repeated after a failed request is
\* answered as it was answered before.
C12_FailuresAreResponses ==
  call.name # "none" =>
    /\ saved.running
    /\ ~result.rejected
    /\ result.isError <=> RequestFails
    /\ result.isError =>
         /\ result.content.text[1] = "Error: "
         /\ result.content.text[2] # ""
    /\ call.name \notin KnownTools =>
         result.content.text = <<"Error: ", "Unknown tool: " \o call.name>>
    /\ saved.first[1].call = call => saved.first[1].result = result

\* the first request, answered again after a request that failed
C12_Witness ==
  /\ call.name = "check_quality"
  /\ saved.failed
  /\ saved.first[1].call = call
  /\ ~result.isError
  /\ result = saved.first[1].result
  /\ result.content.text.ran # <<>>

\* C13: a manifest that exists but is no JSON never makes an operation fail:
\* every well-formed request on a tree with such a manifest is answered
\* without an error.
C13_UnparseableManifestIsNoData ==
  (/\ call.name \in KnownTools
   /\ call.projectPath # Undefined
   /\ \/ RootManifestUnparseable
      \/ store.functions # NoFile /\ ~store.functions.valid
      \/ \E d \in NestedNames : store.nested[d] # NoFile /\ ~store.nested[d].valid)
    => ~result.isError

\* C20: every type of a check_quality run, detected or given as projectType,
\* is dispatched to a structural checker.
C20_EveryTypeHasItsChecker ==
  (call.name = "check_quality" /\ ~result.isError) =>
    /\ Len(result.content.text.ran) = Len(result.content.text.projectTypes)
    /\ \A n \in 1..Len(result.content.text.ran) :
         /\ result.content.text.ran[n].type = result.content.text.projectTypes[n]
         /\ result.content.text.ran[n].checkers # <<>>


----------------------------------------------------------------------------
(* Claims on the checkers                                                  *)

componentDirsOf(tree) ==
  {d \in tree.dirs : Len(d) = 3 /\ isPrefix(<<"src", "components">>, d)}

LacksRequiredFiles(tree, dir) ==
  \/ /\ ~fileExists(tree, dir \o <<"index.tsx">>)
     /\ ~fileExists(tree, dir \o <<"index.jsx">>)
  \/ \E f \in {"types.ts", "styles.ts", "const.ts"} : ~fileExists(tree, dir \o <<f>>)

IssuesWithRule(issues, rule) == {n \in 1..Len(issues) : issues[n].rule = rule}

\* C21: in a React project where exactly one component directory lacks
\* required sibling files (an index.tsx or index.jsx, types.ts, styles.ts,
\* const.ts), the report holds an issue with rule 'react-component-structure'
\* for that directory, and the score is below 100.
C21_IncompleteComponentIsReported ==
  (call.op = "analyzeQuality"
     /\ Cardinality({d \in componentDirsOf(store) : LacksRequiredFiles(store, d)}) = 1) =>
    /\ \A d \in componentDirsOf(store) :
         LacksRequiredFiles(store, d) =>
           \E n \in IssuesWithRule(result.issues, "react-component-structure") :
             result.issues[n].file = <<d>>
    /\ result.score < 200

\* the only defect of the tree is a missing types.ts of one component: 98
C21_Witness ==
  /\ call.op = "analyzeQuality"
  /\ Cardinality({d \in componentDirsOf(store) : LacksRequiredFiles(store, d)}) = 1
  /\ ~fileExists(store, <<"src", "components", "Card", "types.ts">>)
  /\ fileExists(store, <<"src", "components", "Card", "index.tsx">>)
  /\ Len(result.issues) = 1
  /\ result.score = 196

\* C22: a component file holding one console.log line and nothing else gets
\* exactly one debug-statement issue: severity 'error', category
\* 'code-quality', the 1-based number of the line; the score of the
\* otherwise clean project falls from 100 to 95.
OnlyConsoleLog(content) ==
  /\ Cardinality({n \in 1..Len(content) : content[n] # Blank}) = 1
  /\ \E n \in 1..Len(content) : content[n] = ConsoleLine

C23_DeepImportVerdictPerLine ==
  call.op = "analyzeReactProject" =>
    \A file \in DOMAIN store.files :
      \A n \in 1..Len(readFile(store, file)) :
        testDeepImport(readFile(store, file)[n]) <=>
          \E k \in IssuesWithRule(result, "no-deep-imports") :
            result[k].file = <<file>> /\ result[k].line = <<n>>


\* C24: for every declaration line findFunctions matches, endLine is the
\* first line from the declaration on at which the running brace count is
\* zero with a '{' seen, the declaration line when there is none; so
\* startLine <= endLine <= number of lines; and analyzeReactProject flags
\* the function exactly when endLine - startLine + 1 exceeds the threshold.
BalancedAt(content, i) ==
  {j \in i..Len(content) :
     \E t \in 1..Len(content[j]) :
       started(content, i, j, t) /\ braceCount(content, i, j, t) = 0}

ClaimedEndLine(content, i) ==
  IF BalancedAt(content, i) = {} THEN i
  ELSE CHOOSE j \in BalancedAt(content, i) : \A k \in BalancedAt(content, i) : j <= k

C24_FunctionBoundaries ==
  /\ call.op = "findFunctions" =>
       /\ {result[k].startLine : k \in 1..Len(result)}
            = {i \in 1..Len(call.content) : matchFunction(call.content[i]) # <<>>}
       /\ \A k \in 1..Len(result) :
            /\ result[k].endLine = ClaimedEndLine(call.content, result[k].startLine)
            /\ result[k].startLine <= result[k].endLine
            /\ result[k].endLine <= Len(call.content)
  /\ call.op = "analyzeReactProject" =>
       \A i \in 1..Len(readFile(store, AppTsx)) :
         matchFunction(readFile(store, AppTsx)[i]) # <<>> =>
           ((\E n \in IssuesWithRule(result, "max-function-lines") :
               result[n].file = <<AppTsx>> /\ result[n].line = <<i>>)
            <=> ClaimedEndLine(readFile(store, AppTsx), i) - i + 1 > 30)

\* C29: QualityAnalyzer.analyzeReactProject and
\* ReactAnalysisService.analyzeReactProject return the same issues for every
\* tree and variant.
C29_ReactCheckersAgree ==
  call.op = "analyzeReactProject" =>
    result = ReactAnalysisService_analyzeReactProject(store, call.variant)


\* the directories a checker declares, each with the names it may have at
\* the place the checker looks for it, and whether it is optional
Declared(names, optional) == [names |-> names, optional |-> optional]

DeclaredOf(list) ==
  [k \in 1..Len(list) |-> Declared({list[k].path}, list[k].optional)]

DeclaredUnder(base, list) ==
  [k \in 1..Len(list) |->
     Declared({join(base, <<list[k].path>>)}
                \cup {join(base, <<list[k].altNames[a]>>) : a \in 1..Len(list[k].altNames)},
              list[k].optional)]

DeclaredAngular ==
  [k \in 1..Len(angularRequiredFolders) |->
     Declared({angularRequiredFolders[k].path}
                \cup {join(SrcApp, <<angularRequiredFolders[k].altNames[a]>>) :
                        a \in 1..Len(angularRequiredFolders[k].altNames)},
              angularRequiredFolders[k].optional)]

DeclaredFirebase ==
  <<Declared({FunctionsSrc}, FALSE)>>
  \o [k \in 1..Len(firebaseRequiredDirs) |->
        Declared({join(FunctionsSrc, <<firebaseRequiredDirs[k].dir>>)}, FALSE)]

\* the checker an operation of the specification runs: the family name of
\* its type and what it declares
CheckerOf(op, project) ==
  CASE op = "checkReactComponentStructure" ->
         [type |-> "react", declared |-> DeclaredOf(reactRequiredFolders)]
    [] op = "checkNodeProjectStructure" ->
         [type |-> "node",
          declared |-> DeclaredOf(nodeRequiredFolders(projectTypeOf(project)))]
    [] op = "checkFirebaseStructure" ->
         [type |-> "firebase", declared |-> DeclaredFirebase]
    [] op = "checkJavaProjectStructure" ->
         [type |-> "java",
          declared |-> DeclaredUnder(JavaBase, layerBasedFolders)]
    [] op = "checkDotNetProjectStructure" ->
         [type |-> "dotnet", declared |-> DeclaredUnder(<<>>, standardFolders)]
    [] op = "checkAngularProjectStructure" ->
         [type |-> "angular", declared |-> DeclaredAngular]

StructureOps ==
  {"checkReactComponentStructure", "checkNodeProjectStructure", "checkFirebaseStructure",
   "checkJavaProjectStructure", "checkDotNetProjectStructure",
   "checkAngularProjectStructure"}

AbsentRequired(tree, declared) ==
  {k \in 1..Len(declared) :
     /\ ~declared[k].optional
     /\ \A path \in declared[k].names : ~fileExists(tree, path)}

FolderIssues(issues, type) ==
  {n \in 1..Len(issues) :
     /\ issues[n].category = type \o "-organization"
     /\ issues[n].rule = type \o "-folder-structure"
     /\ issues[n].severity \in {"warning", "error"}}

\* C25: whatever the type and the tree, the structural checker gives one
\* issue of category '<type>-organization' and rule
\* '<type>-folder-structure', a warning or an error, for each declared
\* required directory that is absent, and none for an absent optional one:
\* as many such issues as absent required directories.
C25_AbsentRequiredDirectoriesReported ==
  call.op \in StructureOps =>
    Cardinality(FolderIssues(result, CheckerOf(call.op, store).type))
      = Cardinality(AbsentRequired(store.tree, CheckerOf(call.op, store).declared))


\* the rules of the checks that read the text of files
LexicalRules ==
  {"max-file-lines", "no-console", "no-deep-imports", "max-line-length",
   "max-function-lines", "node-separation-of-concerns", "unused-dependency",
   "firebase-max-lines", "firebase-function-max-lines", "firebase-max-functions",
   "firebase-logger", "java-no-sysout", "dotnet-no-console", "angular-no-dom",
   "amplify-no-credentials"}

\* the rules of the checks that look at which paths exist
StructuralRules ==
  {"react-folder-structure", "react-component-structure", "react-hooks-structure",
   "react-subcomponent-structure", "node-folder-structure",
   "firebase-folder-structure", "firebase-constants-structure",
   "firebase-utils-structure", "firebase-function-organization",
   "firebase-naming-convention", "firebase-exports", "firebase-entry-point",
   "spring-boot-structure", "clean-architecture-structure", "dotnet-folder-structure",
   "angular-folder-structure", "angular-core-structure", "angular-shared-structure",
   "angular-feature-structure"}

StructuralBeforeLexical(issues) ==
  \A i, j \in 1..Len(issues) :
    (issues[i].rule \in StructuralRules /\ issues[j].rule \in LexicalRules) => i < j

\* the place of a path in the order directories are discovered
Discovered(path) == CHOOSE k \in 1..Len(AllPaths) : AllPaths[k] = path

\* the place in the declared list of the folder an issue reports, 0 for an
\* issue that reports no folder of the list
DeclaredPlace(issue) ==
  LET react == {k \in 1..Len(reactRequiredFolders) :
                  issue.message = "Missing required folder: "
                                    \o pathText(reactRequiredFolders[k].path) \o " - "
                                    \o reactRequiredFolders[k].description}
      firebase == {k \in 1..Len(firebaseRequiredDirs) :
                     issue.message = "Missing required directory: functions/src/"
                                       \o firebaseRequiredDirs[k].dir}
  IN IF react # {} THEN CHOOSE k \in react : TRUE
     ELSE IF firebase # {} THEN CHOOSE k \in firebase : TRUE
     ELSE 0

\* the place in the discovery order of the directory an issue was found in
\* (a React component, a Firebase function group), 0 when it has none
DiscoveredPlace(issue) ==
  LET groups == {k \in 1..Len(FirebasePaths) :
                   issue.message = "Empty function group: functions/src/functions/"
                                     \o basename(FirebasePaths[k])}
  IN IF issue.rule \in {"react-component-structure", "react-subcomponent-structure"}
     THEN Discovered(SubSeq(issue.file[1], 1, 3))
     ELSE IF issue.rule = "react-hooks-structure"
     THEN Discovered(SubSeq(issue.file[1], 1, 3))
     ELSE IF issue.rule = "firebase-naming-convention"
     THEN Discovered(dirname(issue.file[1]))
     ELSE IF groups # {}
     THEN Discovered(FirebasePaths[CHOOSE k \in groups : TRUE])
     ELSE 0

\* declared-list order, then discovery order
ListThenDiscoveryOrder(issues) ==
  \A i, j \in 1..Len(issues) :
    i < j =>
      /\ (DeclaredPlace(issues[i]) > 0 /\ DeclaredPlace(issues[j]) > 0)
           => DeclaredPlace(issues[i]) < DeclaredPlace(issues[j])
      /\ (DiscoveredPlace(issues[i]) > 0 /\ DiscoveredPlace(issues[j]) > 0)
           => DiscoveredPlace(issues[i]) <= DiscoveredPlace(issues[j])
      /\ ~(DiscoveredPlace(issues[i]) > 0 /\ DeclaredPlace(issues[j]) > 0)

\* C26: in the issues of one project type every structural issue precedes
\* every lexical one, the structural issues follow the declared list and
\* then the order in which directories are discovered, and two runs of
\* analyzeQuality on the unchanged tree return the same issues.
C26_StructuralFirstAndRepeatable ==
  /\ call.op = "analyzeByType" =>
       StructuralBeforeLexical(result) /\ ListThenDiscoveryOrder(result)
  /\ \A n \in 1..Len(saved) :
       /\ StructuralBeforeLexical(saved[n].issues)
       /\ ListThenDiscoveryOrder(saved[n].issues)
       /\ saved[n].issues = saved[1].issues

\* a second run on a React project with a missing folder, an incomplete
\* component and a console.log
C26_Witness ==
  /\ call.op = "analyzeQuality"
  /\ Len(saved) = 2
  /\ projectTypeOf(store) = "react"
  /\ Cardinality({n \in 1..Len(result.issues) :
                    DeclaredPlace(result.issues[n]) > 0}) >= 1
  /\ \E n \in 1..Len(result.issues) : DiscoveredPlace(result.issues[n]) > 0
  /\ \E n \in 1..Len(result.issues) : result.issues[n].rule = "no-console"


\* the canned strings of the four categories, in the order they are checked
CannedStrings ==
  <<<<"file-size",
      "Consider breaking down large files into smaller, more focused modules">>,
    <<"imports",
      "Set up path aliases in tsconfig.json to avoid deep relative imports">>,
    <<"firebase-structure",
      "Split Firebase functions into separate files (max 5 functions per file)">>,
    <<"code-quality", "Replace console.log with proper logging framework">>>>

MonorepoString ==
  "Consider using a monorepo tool like Lerna or Nx for better dependency management"

CategoriesIn(issues) == {issues[n].category : n \in 1..Len(issues)}

\* the strings of the categories present, in the fixed order
CannedFor(issues) ==
  LET present == SelectSeq(CannedStrings, LAMBDA c : c[1] \in CategoriesIn(issues))
  IN [k \in 1..Len(present) |-> present[k][2]]

\* C27 as stated: generateRecommendations returns exactly the canned strings
\* of those of the categories 'file-size', 'imports', 'firebase-structure',
\* 'code-quality' that occur among the issues, one each, in that fixed
\* order, whatever the order, number and severity of the issues.
C27_RecommendationsByCategory ==
  call.op = "generateRecommendations" => result = CannedFor(call.issues)

\* C27, amended: those strings, followed by the monorepo recommendation
\* exactly when the project is a multi-project.
C27_RecommendationsByCategoryAndMultiProject ==
  call.op = "generateRecommendations" =>
    result = CannedFor(call.issues)
               \o (IF call.projectInfo.isMultiProject THEN <<MonorepoString>> ELSE <<>>)

\* code-quality occurs before file-size and twice, in a multi-project
C27_Witness ==
  /\ call.op = "generateRecommendations"
  /\ call.issues = <<ConsoleIssue, FileSizeIssue, ConsoleIssue>>
  /\ call.projectInfo.isMultiProject
  /\ Len(result) = 3
  /\ result[3] = MonorepoString


\* C28: snapshots of different project paths do not interfere: saveAnalysis(q, r)
\* leaves getLatestAnalysis(p) as it was for every other path p, and
\* getLatestAnalysis(p) never returns a report saved under another path.
C28_PathsDoNotInterfere ==
  [][/\ call'.op = "saveAnalysis" =>
          \A p \in Paths \ {call'.path} :
            getLatestAnalysis(store', p) = getLatestAnalysis(store, p)
     /\ (call'.op = "getLatestAnalysis" /\ result' # Null) =>
          result'.projectPath = call'.path]_vars


\* the layer packages of the claim: each with the names it may have
LayerPackages ==
  <<{"controller"}, {"service"}, {"repository"}, {"model", "entity", "domain"},
    {"dto"}, {"config"}>>

LayerPresent(tree, base, names) ==
  \E name \in names : fileExists(tree, join(base, <<name>>))

\* the 'spring-boot-structure' warnings among the issues
LayerWarnings(issues) ==
  {n \in 1..Len(issues) :
     issues[n].rule = "spring-boot-structure" /\ issues[n].severity = "warning"}

\* C30: in a Java project with at least one of the layer packages under its
\* base package, checkJavaProjectStructure reports every absent layer
\* package with a 'spring-boot-structure' warning, wherever the package
\* stands in the declared list: as many warnings as absent layer packages.
C30_AbsentLayersReported ==
  (/\ call.op = "checkJavaProjectStructure"
   /\ findJavaBasePackage(store.tree) # Null
   /\ \E k \in 1..Len(LayerPackages) :
        LayerPresent(store.tree, findJavaBasePackage(store.tree)[1], LayerPackages[k]))
  => Cardinality(LayerWarnings(result))
       = Cardinality({k \in 1..Len(LayerPackages) :
                        ~LayerPresent(store.tree, findJavaBasePackage(store.tree)[1],
                                      LayerPackages[k])})

====
